---- MODULE Spec2Model ----
(***************************************************************************)
(* Model of the market-data backend's shared-state core:                   *)
(*   - RequestCoalescer   (backend/services/request_coalescer.py)          *)
(*   - chat rate limiter  (backend/api/ai_chat.py)                         *)
(*   - CacheService       (backend/services/cache_service.py)              *)
(* Each component has its own specification over the common variables.     *)
(***************************************************************************)
EXTENDS Integers, Sequences, FiniteSets, TLC

(***************************************************************************)
(* Bounds of the model.                                                    *)
(***************************************************************************)
NCallers == 3
MaxTime == 6

Callers == 1..NCallers
\* two keys tell a call for the same key from a call for another key
Keys == {1, 2}
\* results fetch_fn may produce; 0 stands for a falsy result (None, {}, [])
FetchValues == {0, 1, 2}

\* RequestCoalescer(window_seconds=5)
window_seconds == 5

\* the clock is observed at a granularity of half a window
TickStep == (window_seconds + 1) \div 2

VARIABLES
    now,                 \* datetime.now(), in seconds
    pending_requests,    \* key -> task registered for it (0: key absent)
    request_timestamps,  \* key -> registration time (-1: key absent)
    lockOwner,           \* self._lock: 0 free, c a coalesce call, -t a fetch task
    lockWaiters,         \* self._lock's FIFO of waiters
    cpc,                 \* position of each coalesce call
    ckey,                \* its key argument
    cfut,                \* the task it awaits
    cres,                \* what it returned or raised
    abandoned,           \* the call was cancelled while awaiting its task
    arrivedDuring,       \* tasks fetching its key at the time it was called
    tpc,                 \* position of each _fetch_and_cleanup task
    tkey,                \* its key
    thasCache,           \* whether it was given a cache_func
    tout,                \* its outcome (result or exception)
    fetchCount,          \* key -> number of fetch_func invocations so far
    cacheCount           \* task -> number of cache_func invocations

coalVars == <<now, pending_requests, request_timestamps, lockOwner, lockWaiters,
              cpc, ckey, cfut, cres, abandoned, arrivedDuring,
              tpc, tkey, thasCache, tout, fetchCount, cacheCount>>

\* ---- chat endpoint (api/ai_chat.py) ----
VARIABLES
    clock,               \* datetime.now() seen by the chat endpoint, in half hours
    limit,               \* AI_RATE_LIMIT_PER_HOUR
    user_request_counts, \* user id -> list of request timestamps
    acceptedLog,         \* user id -> timestamps of all requests that passed the check
    rpc,                 \* position of each chat request
    ruser,               \* its current_user
    touched,             \* the collaborators it has called so far
    lastDone             \* the response sent last: HTTP status, collaborators called

chatVars == <<clock, limit, user_request_counts, acceptedLog, rpc, ruser, touched, lastDone>>

\* ---- CacheService (services/cache_service.py) and the Redis server behind it ----
VARIABLES
    ctime,               \* the Redis server's clock, in seconds
    cticks,              \* number of times the clock was advanced
    reachable,           \* whether calls on redis_client get through
    foreign,             \* number of keys in the database besides those of the model
    store,               \* Redis: key -> entry written by SETEX (with the value it was made from)
    lastOp               \* the CacheService call made last

cacheVars == <<ctime, cticks, reachable, foreign, store, lastOp>>

\* ---- AIChatService (services/ai_chat_service.py): query classification ----
VARIABLES
    query,               \* the query text, a sequence of characters
    classified           \* what _needs_realtime_data returned for it ("none": not called yet)

routeVars == <<query, classified>>

\* ---- AIChatService and the part of chat() after the rate limit ----
VARIABLES
    perplexity_api_key,  \* whether a Perplexity API key is configured
    claude,              \* whether the Anthropic client exists (key configured)
    redis_up,            \* whether the service's Redis server answers
    ai_cache,            \* Redis: the set of entries [key, value] written by SETEX and not expired
    response,            \* the chat request answered last and its response
    health               \* the reply of the health endpoint called last

serviceVars == <<perplexity_api_key, claude, redis_up, ai_cache, response, health>>

\* ---- AIChatService._generate_cache_key, called for two requests ----
VARIABLES
    reqA, reqB,          \* the two requests: query and user_context
    keyA, keyB           \* the cache keys generated for them (<<>>: not yet)

keyVars == <<reqA, reqB, keyA, keyB>>

\* ---- AIChatService._extract_actions_from_content ----
VARIABLES
    content,             \* the text of the AI response, a sequence of characters
    watchlist,           \* context["watchlist"]
    extracted,           \* whether the actions have been extracted
    actions              \* the list returned

extractVars == <<content, watchlist, extracted, actions>>

\* ---- TechnicalAnalysisService (services/technical_analysis_service.py) ----
VARIABLES
    indicators,          \* the indicators _generate_trading_signal is given
    signals,             \* the votes of the four indicators, in the order of the code
    trading_signal,      \* the dictionary _generate_trading_signal returns
    techNow,             \* datetime.now().timestamp(), in seconds
    techJumps,           \* how many times the clock has advanced
    techCache,           \* self.cache: the symbols cached, each with its timestamp
    techRet              \* what the last get_technical_indicators call returned

techVars == <<indicators, signals, trading_signal, techNow, techJumps, techCache, techRet>>

\* ---- CacheService.get_or_fetch (services/cache_service.py) ----
VARIABLES
    gofParams,           \* the cache_type and custom_ttl arguments of the calls
    gofWrote,            \* the tasks whose cache_result has run
    gofRet               \* what the last call answered from the cache returned

gofVars == <<gofParams, gofWrote, gofRet>>

\* ---- chat() with stream=true and AIChatService.stream_claude_response ----
VARIABLES
    sreq,                \* the streamed request: its query and provider
    spc,                 \* position of the streamed request
    events,              \* the events sent on the stream so far
    sfailed              \* whether the Claude API raised

streamVars == <<sreq, spc, events, sfailed>>

\* ---- PolygonService / AlphaVantageService: _rate_limit and _make_request ----
VARIABLES
    rlNow,               \* datetime.now(), in seconds
    rlJumps,             \* how many times the clock has advanced
    self_request_count,  \* self.request_count
    last_request_time,   \* self.last_request_time
    rlpc,                \* position of each _make_request call
    rlWake,              \* when its asyncio.sleep ends
    rlAt                 \* when its outbound request was released (-1: not yet)

limiterVars == <<rlNow, rlJumps, self_request_count, last_request_time, rlpc, rlWake, rlAt>>

\* the components modelled after the chat service
laterVars == <<techVars, gofVars, streamVars, limiterVars>>

vars == <<coalVars, chatVars, cacheVars, routeVars, serviceVars, keyVars, extractVars,
          laterVars>>

otherThanCoalescer == <<chatVars, cacheVars, routeVars, serviceVars, keyVars, extractVars, laterVars>>
otherThanChat == <<coalVars, cacheVars, routeVars, serviceVars, keyVars, extractVars, laterVars>>
otherThanCache == <<coalVars, chatVars, routeVars, serviceVars, keyVars, extractVars, laterVars>>
otherThanRoute == <<coalVars, chatVars, cacheVars, serviceVars, keyVars, extractVars, laterVars>>
otherThanService == <<coalVars, chatVars, cacheVars, routeVars, keyVars, extractVars, laterVars>>
otherThanKey == <<coalVars, chatVars, cacheVars, routeVars, serviceVars, extractVars, laterVars>>
otherThanExtract == <<coalVars, chatVars, cacheVars, routeVars, serviceVars, keyVars, laterVars>>
earlierVars == <<coalVars, chatVars, cacheVars, routeVars, serviceVars, keyVars, extractVars>>
otherThanTech == <<earlierVars, gofVars, streamVars, limiterVars>>
\* get_or_fetch works on the coalescer and on the cache
otherThanFetch == <<chatVars, routeVars, serviceVars, keyVars, extractVars, techVars, streamVars,
                    limiterVars>>
otherThanStream == <<earlierVars, techVars, gofVars, limiterVars>>
otherThanLimiter == <<earlierVars, techVars, gofVars, streamVars>>

\* no query classified yet
RouteIdle == query = <<>> /\ classified = "none"

\* no provider field in the request body
NoProvider == [given |-> FALSE, text |-> <<>>]

\* no chat request answered yet
NoAnswer ==
    [query |-> <<>>, provider |-> NoProvider, stream |-> FALSE, outcome |-> "none",
     path |-> "none", routed |-> "none", outbound |-> {}, cached |-> FALSE,
     kind |-> "none", error |-> FALSE, status |-> 0]

\* the health endpoint not called yet
NoHealth == [status |-> "none", perplexity |-> FALSE, claude |-> FALSE, redis |-> FALSE]

\* a service with both backends configured and nothing cached
ServiceIdle ==
    /\ perplexity_api_key = TRUE
    /\ claude = TRUE
    /\ redis_up = TRUE
    /\ ai_cache = {}
    /\ response = NoAnswer
    /\ health = NoHealth

\* a request with an empty query and an empty context
NoRequest ==
    [query |-> <<>>, watchlist |-> <<>>, current_view |-> <<>>, user_id |-> 1, timestamp |-> 0]

\* no cache key generated yet
KeyIdle == reqA = NoRequest /\ reqB = NoRequest /\ keyA = <<>> /\ keyB = <<>>

\* no response text to extract actions from
ExtractIdle == content = <<>> /\ watchlist = <<>> /\ extracted = FALSE /\ actions = <<>>

\* no indicators computed, nothing cached
NoIndicators == [rsi |-> 50, histogram |-> 0, macd |-> 0, signal |-> 0,
                 current_price |-> 0, sma_20 |-> 0, sma_50 |-> 0, lower |-> 0, upper |-> 0]
NoSignal == [signal |-> "none", strength |-> "none"]
TechIdle ==
    /\ indicators = NoIndicators
    /\ signals = <<>>
    /\ trading_signal = NoSignal
    /\ techNow = 0
    /\ techJumps = 0
    /\ techCache = {}
    /\ techRet = "none"

\* get_or_fetch not called
NoParams == [cache_type |-> "default", custom_ttl |-> <<>>]
NoHit == [key |-> 0, hit |-> FALSE]
FetchIdle == gofParams = NoParams /\ gofWrote = {} /\ gofRet = NoHit

\* the components modelled after the chat service, nothing asked of them
\* no streamed request
NoStreamRequest == [query |-> <<>>, provider |-> NoProvider]
StreamIdle == sreq = NoStreamRequest /\ spc = "none" /\ events = <<>> /\ sfailed = FALSE

\* callers of _make_request on one service instance
NRlCallers == 6
RlCallers == 1..NRlCallers

\* a service instance just constructed (lines 33-34)
LimiterIdle ==
    /\ rlNow = 0
    /\ rlJumps = 0
    /\ self_request_count = 0
    /\ last_request_time = 0
    /\ rlpc = [c \in RlCallers |-> "idle"]
    /\ rlWake = [c \in RlCallers |-> 0]
    /\ rlAt = [c \in RlCallers |-> -1]

LaterIdle == TechIdle /\ FetchIdle /\ StreamIdle /\ LimiterIdle

\* an AIChatService nothing has been asked of
AiIdle == RouteIdle /\ ServiceIdle /\ KeyIdle /\ ExtractIdle

NoOutcome == <<"none", 0>>
Cancelled == <<"cancelled", 0>>
Failure == <<"error", 0>>
Value(v) == <<"value", v>>

(***************************************************************************)
(* asyncio.Lock: release() hands the lock to the first waiter.             *)
(***************************************************************************)
ReleasedOwner == IF lockWaiters = <<>> THEN 0 ELSE Head(lockWaiters)
ReleasedWaiters == IF lockWaiters = <<>> THEN <<>> ELSE Tail(lockWaiters)

Without(q, x) == SelectSeq(q, LAMBDA y : y # x)

(***************************************************************************)
(* _cleanup_expired_requests                                               *)
(***************************************************************************)
Expired(k) ==
    /\ request_timestamps[k] # -1
    /\ (now - request_timestamps[k]) > window_seconds

CleanedPending == [k \in Keys |-> IF Expired(k) THEN 0 ELSE pending_requests[k]]
\* a purge that forgets the timestamps map
TimestampsKept == request_timestamps

CleanedTimestamps == [k \in Keys |-> IF Expired(k) THEN -1 ELSE request_timestamps[k]]

\* coalesce with the lock given back before `await future`
ReleasesLockBeforeAwaiting == FALSE

\* The `async with self._lock` block of coalesce encloses both `await future`
\* statements: the lock stays with the call until the awaited task is done.
HoldsLockWhileAwaiting == TRUE

\* How a call ends on receiving a task's outcome.
EndState(o) == CASE o[1] = "value" -> "returned"
                 [] o[1] = "error" -> "raised"
                 [] OTHER -> "cancelled"

(***************************************************************************)
(* coalesce, from the acquisition of the lock to its first suspension.     *)
(***************************************************************************)
CriticalSection(c, k, hc) ==
    LET p == CleanedPending
        ts == CleanedTimestamps
    IN  IF p[k] # 0
        THEN \* attach to the registered future
             /\ pending_requests' = p
             /\ request_timestamps' = ts
             /\ cfut' = [cfut EXCEPT ![c] = p[k]]
             /\ IF tpc[p[k]] = "done"
                THEN \* awaiting a finished task does not suspend
                     /\ cpc' = [cpc EXCEPT ![c] = EndState(tout[p[k]])]
                     /\ cres' = [cres EXCEPT ![c] = tout[p[k]]]
                     /\ lockOwner' = ReleasedOwner
                     /\ lockWaiters' = ReleasedWaiters
                ELSE /\ cpc' = [cpc EXCEPT ![c] = "awaitFut"]
                     /\ cres' = cres
                     /\ IF HoldsLockWhileAwaiting
                        THEN lockOwner' = c /\ lockWaiters' = lockWaiters
                        ELSE lockOwner' = ReleasedOwner /\ lockWaiters' = ReleasedWaiters
             /\ UNCHANGED <<tpc, tkey, thasCache, tout>>
        ELSE \* create_task(_fetch_and_cleanup(...)) and register it
             /\ pending_requests' = [p EXCEPT ![k] = c]
             /\ request_timestamps' = [ts EXCEPT ![k] = now]
             /\ cfut' = [cfut EXCEPT ![c] = c]
             /\ tpc' = [tpc EXCEPT ![c] = "created"]
             /\ tkey' = [tkey EXCEPT ![c] = k]
             /\ thasCache' = [thasCache EXCEPT ![c] = hc]
             /\ tout' = tout
             /\ cpc' = [cpc EXCEPT ![c] = "awaitFut"]
             /\ cres' = cres
             /\ IF HoldsLockWhileAwaiting
                THEN lockOwner' = c /\ lockWaiters' = lockWaiters
                ELSE lockOwner' = ReleasedOwner /\ lockWaiters' = ReleasedWaiters

\* tasks that are executing fetch_func for key k
Running(k) == {t \in Callers : tkey[t] = k /\ tpc[t] = "fetching"}

\* tasks created for key k whose fetch_func has not finished
InFlight(k) == {t \in Callers : tkey[t] = k /\ tpc[t] \in {"created", "fetching"}}

\* coalesce(key, fetch_func, cache_func) is called
Call(c, k, hc) ==
    /\ cpc[c] = "idle"
    /\ \A d \in Callers : d < c => cpc[d] # "idle"   \* calls are numbered in order of arrival
    /\ ckey' = [ckey EXCEPT ![c] = k]
    /\ arrivedDuring' = [arrivedDuring EXCEPT ![c] = InFlight(k)]
    /\ IF lockOwner = 0
       THEN CriticalSection(c, k, hc)
       ELSE /\ cpc' = [cpc EXCEPT ![c] = "wantLock"]
            /\ lockWaiters' = Append(lockWaiters, c)
            /\ UNCHANGED <<pending_requests, request_timestamps, lockOwner,
                           cfut, cres, tpc, tkey, thasCache, tout>>
    /\ UNCHANGED <<now, abandoned, fetchCount, cacheCount>>
    /\ UNCHANGED otherThanCoalescer

(***************************************************************************)
(* _fetch_and_cleanup                                                      *)
(***************************************************************************)
\* the `finally` block: `async with self._lock`, then the two deletions
EnterFinally(t, o) ==
    IF lockOwner = 0
    THEN /\ pending_requests' = [pending_requests EXCEPT ![tkey[t]] = 0]
         /\ request_timestamps' = [request_timestamps EXCEPT ![tkey[t]] = -1]
         /\ tpc' = [tpc EXCEPT ![t] = "done"]
         /\ tout' = [tout EXCEPT ![t] = o]
         /\ UNCHANGED <<lockOwner, lockWaiters>>
    ELSE /\ tpc' = [tpc EXCEPT ![t] = "wantLock"]
         /\ tout' = [tout EXCEPT ![t] = o]
         /\ lockWaiters' = Append(lockWaiters, -t)
         /\ UNCHANGED <<pending_requests, request_timestamps, lockOwner>>

\* the task's first step: `await fetch_func()` starts
TaskStart(t) ==
    /\ tpc[t] = "created"
    /\ tpc' = [tpc EXCEPT ![t] = "fetching"]
    /\ fetchCount' = [fetchCount EXCEPT ![tkey[t]] = @ + 1]
    /\ UNCHANGED <<now, pending_requests, request_timestamps, lockOwner, lockWaiters,
                   cpc, ckey, cfut, cres, abandoned, arrivedDuring,
                   tkey, thasCache, tout, cacheCount>>
    /\ UNCHANGED otherThanCoalescer

\* fetch_func returns v
FetchReturn(t, v) ==
    /\ tpc[t] = "fetching"
    /\ IF thasCache[t] /\ v # 0
       THEN \* `await cache_func(result)`
            /\ tpc' = [tpc EXCEPT ![t] = "caching"]
            /\ tout' = [tout EXCEPT ![t] = Value(v)]
            /\ cacheCount' = [cacheCount EXCEPT ![t] = @ + 1]
            /\ UNCHANGED <<pending_requests, request_timestamps, lockOwner, lockWaiters>>
       ELSE /\ EnterFinally(t, Value(v))
            /\ cacheCount' = cacheCount
    /\ UNCHANGED <<now, cpc, ckey, cfut, cres, abandoned, arrivedDuring,
                   tkey, thasCache, fetchCount>>
    /\ UNCHANGED otherThanCoalescer

\* fetch_func raises
FetchRaise(t) ==
    /\ tpc[t] = "fetching"
    /\ EnterFinally(t, Failure)
    /\ UNCHANGED <<now, cpc, ckey, cfut, cres, abandoned, arrivedDuring,
                   tkey, thasCache, fetchCount, cacheCount>>
    /\ UNCHANGED otherThanCoalescer

\* cache_func returns, or raises an Exception that is logged and dropped
CacheDone(t) ==
    /\ tpc[t] = "caching"
    /\ EnterFinally(t, tout[t])
    /\ UNCHANGED <<now, cpc, ckey, cfut, cres, abandoned, arrivedDuring,
                   tkey, thasCache, fetchCount, cacheCount>>
    /\ UNCHANGED otherThanCoalescer

\* coalesce resumes in `async with self._lock`: its critical section
Enter(c, hc) ==
    /\ cpc[c] = "wantLock"
    /\ CriticalSection(c, ckey[c], hc)
    /\ UNCHANGED <<now, ckey, abandoned, arrivedDuring, fetchCount, cacheCount>>

\* _fetch_and_cleanup resumes in `async with self._lock`: the body of the
\* `finally` block
Cleanup(t) ==
    /\ tpc[t] = "wantLock"
    /\ pending_requests' = [pending_requests EXCEPT ![tkey[t]] = 0]
    /\ request_timestamps' = [request_timestamps EXCEPT ![tkey[t]] = -1]
    /\ tpc' = [tpc EXCEPT ![t] = "done"]
    /\ lockOwner' = ReleasedOwner
    /\ lockWaiters' = ReleasedWaiters
    /\ UNCHANGED <<now, cpc, ckey, cfut, cres, abandoned, arrivedDuring,
                   tkey, thasCache, tout, fetchCount, cacheCount>>

\* asyncio.Lock.acquire() returns in the waiter the lock was handed to: a
\* coalesce call (w > 0) or a _fetch_and_cleanup task (w < 0).  A task is
\* handed the lock only once the call awaiting it has released it.
Acquired(w, hc) ==
    /\ w # 0
    /\ lockOwner = w
    /\ IF w > 0 THEN Enter(w, hc) ELSE Cleanup(0 - w)
    /\ UNCHANGED otherThanCoalescer

\* `await future` resumes: the call returns the result or raises the exception
CallerResume(c) ==
    /\ cpc[c] = "awaitFut"
    /\ tpc[cfut[c]] = "done"
    /\ LET o == IF abandoned[c] THEN Cancelled ELSE tout[cfut[c]]
       IN  /\ cpc' = [cpc EXCEPT ![c] = EndState(o)]
           /\ cres' = [cres EXCEPT ![c] = o]
    /\ IF lockOwner = c
       THEN lockOwner' = ReleasedOwner /\ lockWaiters' = ReleasedWaiters
       ELSE UNCHANGED <<lockOwner, lockWaiters>>
    /\ UNCHANGED <<now, pending_requests, request_timestamps, ckey, cfut,
                   abandoned, arrivedDuring, tpc, tkey, thasCache, tout,
                   fetchCount, cacheCount>>
    /\ UNCHANGED otherThanCoalescer

(***************************************************************************)
(* Cancellation of a coalesce call (client gone, asyncio.wait_for timeout).*)
(* Task.cancel() of a call that awaits a task cancels that task.           *)
(***************************************************************************)
Cancel(c) ==
    /\ \/ \* cancelled while waiting for the lock
          /\ cpc[c] = "wantLock"
          /\ cpc' = [cpc EXCEPT ![c] = "cancelled"]
          /\ cres' = [cres EXCEPT ![c] = Cancelled]
          /\ IF lockOwner = c
             THEN lockOwner' = ReleasedOwner /\ lockWaiters' = ReleasedWaiters
             ELSE lockOwner' = lockOwner /\ lockWaiters' = Without(lockWaiters, c)
          /\ UNCHANGED <<abandoned, tpc, tout, pending_requests, request_timestamps>>
       \/ \* cancelled while awaiting the task
          /\ cpc[c] = "awaitFut"
          /\ abandoned' = [abandoned EXCEPT ![c] = TRUE]
          /\ UNCHANGED <<cpc, cres>>
          /\ LET t == cfut[c]
             IN  CASE tpc[t] = "created" ->
                        \* CancelledError is thrown before the coroutine starts
                        /\ tpc' = [tpc EXCEPT ![t] = "done"]
                        /\ tout' = [tout EXCEPT ![t] = Cancelled]
                        /\ UNCHANGED <<lockOwner, lockWaiters, pending_requests,
                                       request_timestamps>>
                   [] tpc[t] \in {"fetching", "caching"} ->
                        \* CancelledError leaves the try block through `finally`
                        EnterFinally(t, Cancelled)
                   [] tpc[t] = "wantLock" ->
                        \* CancelledError is raised by lock.acquire(): no cleanup
                        /\ tpc' = [tpc EXCEPT ![t] = "done"]
                        /\ tout' = [tout EXCEPT ![t] = Cancelled]
                        /\ IF lockOwner = -t
                           THEN lockOwner' = ReleasedOwner /\ lockWaiters' = ReleasedWaiters
                           ELSE lockOwner' = lockOwner /\ lockWaiters' = Without(lockWaiters, -t)
                        /\ UNCHANGED <<pending_requests, request_timestamps>>
                   [] OTHER ->
                        UNCHANGED <<tpc, tout, lockOwner, lockWaiters, pending_requests,
                                    request_timestamps>>
    /\ UNCHANGED <<now, ckey, cfut, arrivedDuring, tkey, thasCache, fetchCount, cacheCount>>
    /\ UNCHANGED otherThanCoalescer

\* time passes
Tick ==
    /\ now + TickStep <= MaxTime
    /\ now' = now + TickStep
    /\ UNCHANGED <<pending_requests, request_timestamps, lockOwner, lockWaiters,
                   cpc, ckey, cfut, cres, abandoned, arrivedDuring,
                   tpc, tkey, thasCache, tout, fetchCount, cacheCount>>
    /\ UNCHANGED otherThanCoalescer

CoalInit ==
    /\ now = 0
    /\ pending_requests = [k \in Keys |-> 0]
    /\ request_timestamps = [k \in Keys |-> -1]
    /\ lockOwner = 0
    /\ lockWaiters = <<>>
    /\ cpc = [c \in Callers |-> "idle"]
    /\ ckey = [c \in Callers |-> 1]
    /\ cfut = [c \in Callers |-> c]
    /\ cres = [c \in Callers |-> NoOutcome]
    /\ abandoned = [c \in Callers |-> FALSE]
    /\ arrivedDuring = [c \in Callers |-> {}]
    /\ tpc = [c \in Callers |-> "none"]
    /\ tkey = [c \in Callers |-> 1]
    /\ thasCache = [c \in Callers |-> FALSE]
    /\ tout = [c \in Callers |-> NoOutcome]
    /\ fetchCount = [k \in Keys |-> 0]
    /\ cacheCount = [c \in Callers |-> 0]

\* the steps the event loop takes on its own
Internal ==
    \/ \E w \in (0 - NCallers)..NCallers, hc \in BOOLEAN : Acquired(w, hc)
    \/ \E t \in Callers : TaskStart(t)
    \/ \E t \in Callers, v \in FetchValues : FetchReturn(t, v)
    \/ \E t \in Callers : FetchRaise(t)
    \/ \E t \in Callers : CacheDone(t)
    \/ \E c \in Callers : CallerResume(c)

\* what the environment does
External ==
    \/ \E c \in Callers, k \in Keys, hc \in BOOLEAN : Call(c, k, hc)
    \/ \E c \in Callers : Cancel(c)
    \/ Tick

(***************************************************************************)
(* Chat endpoint: rate limiter and request handler (api/ai_chat.py)        *)
(***************************************************************************)
NRequests == 3
MaxLimit == 2
MaxClock == 3

Requests == 1..NRequests
Users == {1, 2}

\* timedelta(hours=1), in half hours
Hour == 2

\* `timestamp > hour_ago` with the bound included
KeepsHourOld(timestamp, t) == timestamp >= t - Hour

\* rate_limit_check: the entries that survive "Clean old entries" at time t
IsRecent(timestamp, t) == timestamp > t - Hour

CleanOld(list, t) == SelectSeq(list, LAMBDA timestamp : IsRecent(timestamp, t))

\* `request_count > limit`
OverLimitOffByOne(request_count, n) == request_count > n

\* rate_limit_check: `if request_count >= limit: return False`
OverLimit(request_count, n) == request_count >= n

NoResponse == [status |-> 0, touched |-> {}]

\* POST /api/ai/chat up to its first await: rate_limit_check has no await, so
\* the check, the 429 and the validation of the query are one step.
ChatStart(r, u, blankQuery) ==
    /\ rpc[r] = "idle"
    /\ \A q \in Requests : q < r => rpc[q] # "idle"   \* requests are numbered by arrival
    /\ LET cleaned == CleanOld(user_request_counts[u], clock)
       IN  IF OverLimit(Len(cleaned), limit)
           THEN /\ user_request_counts' = [user_request_counts EXCEPT ![u] = cleaned]
                /\ acceptedLog' = acceptedLog
                /\ lastDone' = [status |-> 429, touched |-> touched[r]]
                /\ rpc' = [rpc EXCEPT ![r] = "done"]
                /\ ruser' = ruser
           ELSE /\ user_request_counts' =
                       [user_request_counts EXCEPT ![u] = Append(cleaned, clock)]
                /\ acceptedLog' = [acceptedLog EXCEPT ![u] = Append(@, clock)]
                /\ IF blankQuery
                   THEN /\ lastDone' = [status |-> 400, touched |-> touched[r]]
                        /\ rpc' = [rpc EXCEPT ![r] = "done"]
                        /\ ruser' = ruser
                   ELSE /\ lastDone' = lastDone
                        /\ rpc' = [rpc EXCEPT ![r] = "watchlist"]
                        /\ ruser' = [ruser EXCEPT ![r] = u]
    /\ UNCHANGED <<clock, limit, touched>>
    /\ UNCHANGED otherThanChat

\* `await watchlist_service.get_user_watchlist(current_user)` completes (or
\* raises, which leaves an empty watchlist), then the provider is validated
WatchlistLookup(r, validProvider) ==
    /\ rpc[r] = "watchlist"
    /\ IF validProvider
       THEN /\ rpc' = [rpc EXCEPT ![r] = "ai"]
            /\ touched' = [touched EXCEPT ![r] = @ \cup {"watchlist"}]
            /\ UNCHANGED <<lastDone, ruser>>
       ELSE /\ rpc' = [rpc EXCEPT ![r] = "done"]
            /\ lastDone' = [status |-> 400,
                            touched |-> touched[r] \cup {"watchlist"}]
            /\ touched' = [touched EXCEPT ![r] = {}]
            /\ ruser' = [ruser EXCEPT ![r] = 1]
    /\ UNCHANGED <<clock, limit, user_request_counts, acceptedLog>>
    /\ UNCHANGED otherThanChat

\* the AI service answers: from its cache (answer 0), or from a backend with
\* the status the endpoint maps the backend's outcome to
AiAnswer(r, answer) ==
    /\ rpc[r] = "ai"
    /\ rpc' = [rpc EXCEPT ![r] = "done"]
    /\ lastDone' = [status |-> IF answer = 0 THEN 200 ELSE answer,
                    touched |-> touched[r] \cup
                                (IF answer = 0 THEN {"cache"} ELSE {"cache", "backend"})]
    /\ touched' = [touched EXCEPT ![r] = {}]
    /\ ruser' = [ruser EXCEPT ![r] = 1]
    /\ UNCHANGED <<clock, limit, user_request_counts, acceptedLog>>
    /\ UNCHANGED otherThanChat

ChatTick ==
    /\ clock < MaxClock
    /\ clock' = clock + 1
    /\ UNCHANGED <<limit, user_request_counts, acceptedLog, rpc, ruser, lastDone, touched>>
    /\ UNCHANGED otherThanChat

\* the chat endpoint before any request
ChatIdle ==
    /\ clock = 0
    /\ user_request_counts = [u \in Users |-> <<>>]
    /\ acceptedLog = [u \in Users |-> <<>>]
    /\ rpc = [r \in Requests |-> "idle"]
    /\ ruser = [r \in Requests |-> 1]
    /\ lastDone = NoResponse
    /\ touched = [r \in Requests |-> {}]

(***************************************************************************)
(* Python values and their JSON serialisation.  A value is a record        *)
(* [t, n, items]: t the type, n the number or the string's identity,       *)
(* items the elements of a list or tuple, or the keys and values of a dict *)
(* in turn.  The string with identity -1 - i is the decimal numeral of the  *)
(* integer i >= 0.                                                         *)
(***************************************************************************)
PNone == [t |-> "none", n |-> 0, items |-> <<>>]
PBool(b) == [t |-> "bool", n |-> IF b THEN 1 ELSE 0, items |-> <<>>]
PInt(i) == [t |-> "int", n |-> i, items |-> <<>>]
PStr(i) == [t |-> "str", n |-> i, items |-> <<>>]
PList(xs) == [t |-> "list", n |-> 0, items |-> xs]
PTuple(xs) == [t |-> "tuple", n |-> 0, items |-> xs]
PDict(kvs) == [t |-> "dict", n |-> 0, items |-> kvs]

\* the strings "null", "false", "true"
StrNull == PStr(90)
StrOfBool(n) == PStr(91 + n)

\* bool(x)
Truthy(x) == CASE x.t = "none" -> FALSE
               [] x.t \in {"bool", "int"} -> x.n # 0
               [] x.t = "str" -> x.n # 0          \* identity 0 is the empty string
               [] OTHER -> x.items # <<>>

\* json.dumps coerces the keys of a dict to strings
JsonKey(k) == CASE k.t = "str" -> k
                [] k.t = "int" -> PStr(0 - 1 - k.n)
                [] k.t = "bool" -> StrOfBool(k.n)
                [] OTHER -> StrNull

\* json.loads(json.dumps(x)): what a value is after its trip through JSON text.
\* Tuples are written as arrays and read back as lists; keys come back as strings.
RECURSIVE JsonRoundTrip(_)
JsonRoundTrip(x) ==
    CASE x.t \in {"list", "tuple"} ->
            PList([i \in DOMAIN x.items |-> JsonRoundTrip(x.items[i])])
      [] x.t = "dict" ->
            PDict([i \in DOMAIN x.items |->
                      IF i % 2 = 1 THEN JsonKey(x.items[i]) ELSE JsonRoundTrip(x.items[i])])
      [] OTHER -> x

\* the values JSON represents as they are
RECURSIVE JsonNative(_)
JsonNative(x) ==
    CASE x.t = "tuple" -> FALSE
      [] x.t = "list" -> \A i \in DOMAIN x.items : JsonNative(x.items[i])
      [] x.t = "dict" -> \A i \in DOMAIN x.items :
                            IF i % 2 = 1 THEN x.items[i].t = "str" ELSE JsonNative(x.items[i])
      [] OTHER -> TRUE

\* the values callers cache
Documents ==
    { PNone, PInt(0), PStr(1),
      PList(<<PInt(1)>>), PTuple(<<PInt(1)>>),
      PDict(<<PStr(1), PInt(0)>>), PDict(<<PInt(1), PStr(1)>>) }

(***************************************************************************)
(* CacheService                                                            *)
(***************************************************************************)
MaxCacheTicks == 2

CKeys == {<<"stock", "AAPL">>, <<"news", "general">>}
Patterns == {<<"stock", "*">>, <<"*", "*">>}

\* glob match of a pattern `domain:*` or `*`
Matches(p, k) == (p[1] = "*" \/ p[1] = k[1]) /\ (p[2] = "*" \/ p[2] = k[2])

\* self.CACHE_TIMES
CACHE_TIMES ==
    [stock_price |-> 300, crypto_price |-> 180, market_indices |-> 300, news |-> 900,
     historical |-> 3600, company_info |-> 86400, technical |-> 900]

CacheTypes == DOMAIN CACHE_TIMES \cup {"default", "sentiment"}

\* custom_ttl: <<>> is None, <<n>> the integer n
Overrides == {<<>>, <<0>>, <<60>>, <<-1>>}

\* self.CACHE_TIMES.get(cache_type, 300)
CategoryTTL(cache_type) ==
    IF cache_type \in DOMAIN CACHE_TIMES THEN CACHE_TIMES[cache_type] ELSE 300

\* set: `ttl = custom_ttl or self.CACHE_TIMES.get(cache_type, 300)`
ResolveTTL(cache_type, custom_ttl) ==
    IF custom_ttl # <<>> /\ custom_ttl[1] # 0
    THEN custom_ttl[1]
    ELSE CategoryTTL(cache_type)

NoEntry == [present |-> FALSE, value |-> PNone, doc |-> PNone, at |-> 0, ttl |-> 0]

\* Redis: a key is there until its time to live has passed
Live(k) == store[k].present /\ ctime - store[k].at < store[k].ttl

\* Redis DBSIZE
DbSize == foreign + Cardinality({k \in CKeys : Live(k)})

\* clear_pattern: `dbsize <= 1000`
KeysThreshold == 1000

\* what a call returns, or that it raised
Returns(r) == [ret |-> r, raised |-> FALSE]
Raises == [ret |-> PNone, raised |-> TRUE]

\* get: json.loads of the stored text returned whatever it decodes to
DecodedUnlessFalsy(doc) == IF Truthy(doc) THEN doc ELSE PNone

\* get: `if value: return json.loads(value)`; the stored text is never empty
Decoded(doc) == doc

\* CacheService.get(key): its result
GetCall(k) ==
    IF reachable
    THEN Returns(IF Live(k) THEN Decoded(store[k].doc) ELSE PNone)
    ELSE Returns(PNone)

\* CacheService.set(key, value, cache_type, custom_ttl): its result.  SETEX
\* refuses a time to live that is not positive.
SetCall(k, value, cache_type, custom_ttl) ==
    Returns(PBool(reachable /\ ResolveTTL(cache_type, custom_ttl) > 0))

\* CacheService.delete(key): its result
DeleteCall(k) == Returns(PBool(reachable))

\* exists without its try block
ExistsUnguarded(k) == IF reachable THEN Returns(PBool(Live(k))) ELSE Raises

\* CacheService.exists(key): its result
ExistsCall(k) == IF reachable THEN Returns(PBool(Live(k))) ELSE Returns(PBool(FALSE))

\* clear_pattern: KEYS and one DELETE for a small database, SCAN and a DELETE
\* per key for a large one or when DBSIZE fails (dbsizeFails)
ClearStrategy(dbsizeFails) ==
    IF reachable /\ ~dbsizeFails /\ DbSize <= KeysThreshold THEN "keys" ELSE "scan"

\* redis KEYS pattern, and what SCAN pattern iterates over
KeysReply(p) == {k \in CKeys : Live(k) /\ Matches(p, k)}

\* clear_pattern without its SCAN loop
ClearedByKeysOnly(p, dbsizeFails) ==
    IF reachable /\ ClearStrategy(dbsizeFails) = "keys" THEN KeysReply(p) ELSE {}

\* the keys clear_pattern deletes: all of KEYS' reply in one DELETE, or the
\* keys SCAN yields one by one
Cleared(p, dbsizeFails) ==
    IF ~reachable THEN {}
    ELSE IF ClearStrategy(dbsizeFails) = "keys"
         THEN KeysReply(p)
         ELSE {k \in CKeys : k \in KeysReply(p)}

\* CacheService.clear_pattern(pattern): its result, the sum of the DELETE replies
ClearPatternCall(p, dbsizeFails) == Returns(PInt(Cardinality(Cleared(p, dbsizeFails))))

CacheGet(k) ==
    /\ lastOp' = "get"
    /\ UNCHANGED <<ctime, cticks, reachable, foreign, store>>
    /\ UNCHANGED otherThanCache

CacheSet(k, value, cache_type, custom_ttl) ==
    /\ lastOp' = "set"
    /\ IF SetCall(k, value, cache_type, custom_ttl).ret = PBool(TRUE)
       THEN store' = [store EXCEPT ![k] =
                         [present |-> TRUE, value |-> value, doc |-> JsonRoundTrip(value),
                          at |-> ctime, ttl |-> ResolveTTL(cache_type, custom_ttl)]]
       ELSE store' = store
    /\ UNCHANGED <<ctime, cticks, reachable, foreign>>
    /\ UNCHANGED otherThanCache

CacheDelete(k) ==
    /\ lastOp' = "delete"
    /\ IF reachable
       THEN store' = [store EXCEPT ![k] = NoEntry]
       ELSE store' = store
    /\ UNCHANGED <<ctime, cticks, reachable, foreign>>
    /\ UNCHANGED otherThanCache

CacheExists(k) ==
    /\ lastOp' = "exists"
    /\ UNCHANGED <<ctime, cticks, reachable, foreign, store>>
    /\ UNCHANGED otherThanCache

CacheClearPattern(p, dbsizeFails) ==
    /\ lastOp' = "clear_pattern"
    /\ store' = [k \in CKeys |-> IF k \in Cleared(p, dbsizeFails) THEN NoEntry ELSE store[k]]
    /\ UNCHANGED <<ctime, cticks, reachable, foreign>>
    /\ UNCHANGED otherThanCache

\* time passes, up to the second before or the second of an entry's expiry
CacheTick(t) ==
    /\ cticks < MaxCacheTicks
    /\ t > ctime
    /\ ctime' = t
    /\ cticks' = cticks + 1
    /\ lastOp' = "none"
    /\ UNCHANGED <<reachable, foreign, store>>
    /\ UNCHANGED otherThanCache

\* the Redis server becomes unreachable, or reachable again
StoreFlips ==
    /\ reachable' = ~reachable
    /\ lastOp' = "none"
    /\ UNCHANGED <<ctime, cticks, foreign, store>>
    /\ UNCHANGED otherThanCache

\* an idle cache service
CacheIdle ==
    /\ ctime = 0
    /\ cticks = 0
    /\ reachable = TRUE
    /\ foreign = 0
    /\ store = [k \in CKeys |-> NoEntry]
    /\ lastOp = "none"

CacheInit ==
    /\ ctime = 0
    /\ cticks = 0
    /\ reachable \in BOOLEAN
    /\ foreign \in {0, 2 * KeysThreshold}
    /\ store = [k \in CKeys |-> NoEntry]
    /\ lastOp = "none"
    /\ CoalInit
    /\ ChatIdle /\ limit = 1
    /\ AiIdle
    /\ LaterIdle

\* the moments at which some entry is a second from expiry, or expires
ExpiryTimes ==
    UNION {{store[k].at + store[k].ttl - 1, store[k].at + store[k].ttl} :
              k \in {c \in CKeys : store[c].present}}

\* the calls on the cache service, with values from docs, categories from
\* types and TTL overrides from overrides
CacheNextFor(keys, docs, types, overrides) ==
    \/ \E k \in keys : CacheGet(k)
    \/ \E k \in keys, value \in docs, cache_type \in types, custom_ttl \in overrides :
           CacheSet(k, value, cache_type, custom_ttl)
    \/ \E k \in keys : CacheDelete(k)
    \/ \E k \in keys : CacheExists(k)
    \/ \E p \in Patterns, dbsizeFails \in BOOLEAN : CacheClearPattern(p, dbsizeFails)
    \/ \E t \in ExpiryTimes : CacheTick(t)
    \/ StoreFlips

\* two keys and every document, in the default category
SpecCache ==
    CacheInit /\ [][CacheNextFor(CKeys, Documents, {"default"}, {<<>>})]_vars

\* one key and one document, in every category and with every override
SpecTTL ==
    CacheInit /\ [][CacheNextFor({<<"stock", "AAPL">>}, {PStr(1)}, CacheTypes, Overrides)]_vars

(***************************************************************************)
(* Python strings: a string is the sequence of its characters.             *)
(***************************************************************************)
UpperCase == <<"A", "B", "C", "D", "E", "F", "G", "H", "I", "J", "K", "L", "M",
               "N", "O", "P", "Q", "R", "S", "T", "U", "V", "W", "X", "Y", "Z">>
LowerCase == <<"a", "b", "c", "d", "e", "f", "g", "h", "i", "j", "k", "l", "m",
               "n", "o", "p", "q", "r", "s", "t", "u", "v", "w", "x", "y", "z">>

\* upper-case letter -> its lower-case letter
ToLower ==
    [ch \in {UpperCase[i] : i \in DOMAIN UpperCase} |->
        LowerCase[CHOOSE i \in DOMAIN UpperCase : UpperCase[i] = ch]]

IsUpper(ch) == ch \in DOMAIN ToLower

\* str.lower()
LowerChar(ch) == IF IsUpper(ch) THEN ToLower[ch] ELSE ch
Lower(str) == [i \in DOMAIN str |-> LowerChar(str[i])]

\* `sub in str`
Contains(str, sub) ==
    \E i \in 0..(Len(str) - Len(sub)) : SubSeq(str, i + 1, i + Len(sub)) = sub

\* " ".join(words)
RECURSIVE JoinWords(_)
JoinWords(words) ==
    IF words = <<>> THEN <<>>
    ELSE IF Len(words) = 1 THEN words[1]
    ELSE words[1] \o <<" ">> \o JoinWords(Tail(words))

(***************************************************************************)
(* AIChatService._needs_realtime_data                                      *)
(***************************************************************************)
realtime_keywords ==
    { <<"t", "o", "d", "a", "y">>,
      <<"n", "o", "w">>,
      <<"c", "u", "r", "r", "e", "n", "t">>,
      <<"l", "a", "t", "e", "s", "t">>,
      <<"b", "r", "e", "a", "k", "i", "n", "g">>,
      <<"w", "h", "y", " ", "d", "i", "d">>,
      <<"w", "h", "a", "t", " ", "h", "a", "p", "p", "e", "n", "e", "d">>,
      <<"n", "e", "w", "s">>,
      <<"j", "u", "s", "t">>,
      <<"j", "u", "m", "p", "e", "d">>,
      <<"f", "e", "l", "l">>,
      <<"d", "r", "o", "p", "p", "e", "d">>,
      <<"s", "u", "r", "g", "e", "d">>,
      <<"m", "o", "v", "e", "d">>,
      <<"y", "e", "s", "t", "e", "r", "d", "a", "y">>,
      <<"t", "h", "i", "s", " ", "w", "e", "e", "k">>,
      <<"r", "e", "c", "e", "n", "t">>,
      <<"h", "a", "p", "p", "e", "n", "i", "n", "g">> }

analysis_keywords ==
    { <<"a", "n", "a", "l", "y", "z", "e">>,
      <<"c", "o", "m", "p", "a", "r", "e">>,
      <<"s", "t", "r", "a", "t", "e", "g", "y">>,
      <<"p", "o", "r", "t", "f", "o", "l", "i", "o">>,
      <<"f", "u", "n", "d", "a", "m", "e", "n", "t", "a", "l">>,
      <<"t", "e", "c", "h", "n", "i", "c", "a", "l", " ", "a", "n", "a", "l", "y", "s", "i", "s">>,
      <<"v", "a", "l", "u", "a", "t", "i", "o", "n">>,
      <<"s", "h", "o", "u", "l", "d", " ", "i">>,
      <<"w", "o", "u", "l", "d", " ", "y", "o", "u">>,
      <<"r", "e", "c", "o", "m", "m", "e", "n", "d">>,
      <<"a", "d", "v", "i", "c", "e">>,
      <<"e", "v", "a", "l", "u", "a", "t", "e">>,
      <<"a", "s", "s", "e", "s", "s", "m", "e", "n", "t">>,
      <<"r", "e", "v", "i", "e", "w">>,
      <<"e", "x", "p", "l", "a", "i", "n">> }

\* the test for real-time keywords made before the test for analysis keywords
realtime_checked_first(q) ==
    LET query_lower == Lower(q)
    IN  IF \E keyword \in realtime_keywords : Contains(query_lower, keyword)
        THEN TRUE
        ELSE IF \E keyword \in analysis_keywords : Contains(query_lower, keyword)
             THEN FALSE
             ELSE TRUE

\* _needs_realtime_data(query): TRUE routes to Perplexity (live), FALSE to
\* Claude (analysis)
needs_realtime_data(q) ==
    LET query_lower == Lower(q)
    IN  IF \E keyword \in analysis_keywords : Contains(query_lower, keyword)
        THEN FALSE
        ELSE IF \E keyword \in realtime_keywords : Contains(query_lower, keyword)
             THEN TRUE
             ELSE TRUE

MaxQueryWords == 2

\* pieces of query text
QueryWords ==
    { <<"S", "h", "o", "u", "l", "d", " ", "I">>,
      <<"T", "o", "d", "a", "y">>,
      <<"r", "e", "v", "i", "e", "w">>,
      <<"k", "n", "o", "w">>,
      <<"h", "e", "l", "l", "o">>,
      <<"W", "H", "Y", " ", "D", "I", "D">>,
      <<"A", "A", "P", "L">> }

\* the queries of the claim's examples
ExampleQueries ==
    { <<"S", "h", "o", "u", "l", "d", " ", "I", " ", "b", "u", "y", " ", "A", "A", "P", "L", " ", "c", "a", "l", "l", "s", " ", "t", "o", "d", "a", "y", "?">>,
      <<"W", "h", "a", "t", " ", "h", "a", "p", "p", "e", "n", "e", "d", " ", "t", "o", " ", "T", "S", "L", "A", " ", "t", "o", "d", "a", "y">> }

\* sequences of 1..n elements of set
RECURSIVE SeqsUpTo(_, _)
SeqsUpTo(set, n) ==
    IF n = 0 THEN {<<>>}
    ELSE LET shorter == SeqsUpTo(set, n - 1)
         IN  shorter \cup {Append(sq, x) : sq \in shorter, x \in set}

Queries ==
    ExampleQueries \cup {JoinWords(ws) : ws \in SeqsUpTo(QueryWords, MaxQueryWords) \ {<<>>}}

\* _needs_realtime_data is called on the query
Classify ==
    /\ classified = "none"
    /\ classified' = (IF needs_realtime_data(query) THEN "live" ELSE "analysis")
    /\ UNCHANGED query
    /\ UNCHANGED otherThanRoute

\* the next query arrives
NextQuery(q) ==
    /\ classified # "none"
    /\ query' = q
    /\ classified' = "none"
    /\ UNCHANGED otherThanRoute

RouteInit ==
    /\ query \in Queries
    /\ classified = "none"
    /\ CoalInit
    /\ ChatIdle /\ limit = 1
    /\ CacheIdle
    /\ ServiceIdle
    /\ KeyIdle
    /\ ExtractIdle
    /\ LaterIdle

RouteNext == Classify \/ \E q \in Queries : NextQuery(q)

SpecRoute == RouteInit /\ [][RouteNext]_vars

(***************************************************************************)
(* AIChatService._generate_cache_key                                       *)
(***************************************************************************)
\* position of a character in the order of code points (letters only)
CharIndex(ch) ==
    IF IsUpper(ch)
    THEN CHOOSE i \in DOMAIN UpperCase : UpperCase[i] = ch
    ELSE Len(UpperCase) + (CHOOSE i \in DOMAIN LowerCase : LowerCase[i] = ch)

\* a < b for strings
RECURSIVE StrLess(_, _)
StrLess(a, b) ==
    IF b = <<>> THEN FALSE
    ELSE IF a = <<>> THEN TRUE
    ELSE IF a[1] # b[1] THEN CharIndex(a[1]) < CharIndex(b[1])
    ELSE StrLess(Tail(a), Tail(b))

\* sorted(list) of strings
RECURSIVE Sorted(_)
Sorted(list) ==
    IF list = <<>> THEN <<>>
    ELSE LET least == CHOOSE i \in DOMAIN list : \A j \in DOMAIN list : ~StrLess(list[j], list[i])
             rest == [j \in 1..(Len(list) - 1) |-> IF j < least THEN list[j] ELSE list[j + 1]]
         IN  <<list[least]>> \o Sorted(rest)

\* the cache key built from the watchlist as it comes
KeyOfUnsortedWatchlist(q, context) ==
    <<"ai_chat:", [query |-> q, watchlist |-> context.watchlist, view |-> context.current_view]>>

\* _generate_cache_key(query, context): "ai_chat:" and the MD5 digest of the
\* JSON text of cache_data, which stands here for its digest
generate_cache_key(q, context) ==
    <<"ai_chat:", [query |-> q, watchlist |-> Sorted(context.watchlist),
                   view |-> context.current_view]>>

MaxWatchlist == 2

\* symbols on watchlists
Symbols == {<<"A", "A", "P", "L">>, <<"M", "S", "F", "T">>, <<"T", "S", "L", "A">>}

\* a watchlist holds a symbol once
Watchlists ==
    {w \in SeqsUpTo(Symbols, MaxWatchlist) : \A i, j \in DOMAIN w : i # j => w[i] # w[j]}

\* context.get("current_view", ""): absent or empty, or the dashboard
Views == {<<>>, <<"d", "a", "s", "h", "b", "o", "a", "r", "d">>}

\* the symbols of a watchlist
SymbolSet(w) == {w[i] : i \in DOMAIN w}

\* _generate_cache_key is called for both requests
GenerateKeys ==
    /\ keyA = <<>>
    /\ keyA' = generate_cache_key(reqA.query, reqA)
    /\ keyB' = generate_cache_key(reqB.query, reqB)
    /\ UNCHANGED <<reqA, reqB>>
    /\ UNCHANGED otherThanKey

KeyInit ==
    /\ reqA \in [query : {<<"h", "i">>, <<"H", "i">>}, watchlist : Watchlists, current_view : Views,
                  user_id : {1}, timestamp : {0}]
    /\ reqB \in [query : {<<"h", "i">>, <<"H", "i">>}, watchlist : Watchlists, current_view : Views,
                  user_id : {1, 2}, timestamp : {0, 1}]
    /\ keyA = <<>>
    /\ keyB = <<>>
    /\ CoalInit
    /\ ChatIdle /\ limit = 1
    /\ CacheIdle
    /\ RouteIdle
    /\ ServiceIdle
    /\ ExtractIdle
    /\ LaterIdle

SpecKey == KeyInit /\ [][GenerateKeys]_vars

(***************************************************************************)
(* AIChatService: the two backends, process_query, check_health            *)
(***************************************************************************)
\* what a backend does with a call: answers, answers with an error status,
\* refuses the connection, or does not answer within the timeout
Outcomes == {"ok", "status", "refused", "silent"}

\* a response dict: kind stands for its content
Answer(kind, error, backend, outbound) ==
    [kind |-> kind, error |-> error, provider |-> backend, outbound |-> outbound]

\* _perplexity_search: every failure of the call is caught and returned as
\* an error dict; the client's own timeout is request_timeout
perplexity_search(outcome) ==
    IF ~perplexity_api_key
    THEN Answer("not_configured", TRUE, "unknown", {})
    ELSE CASE outcome = "ok" -> Answer("answer", FALSE, "perplexity", {"perplexity"})
           [] outcome = "status" -> Answer("upstream_error", TRUE, "unknown", {"perplexity"})
           [] outcome = "refused" -> Answer("connection_error", TRUE, "unknown", {"perplexity"})
           [] OTHER -> Answer("upstream_timeout", TRUE, "unknown", {"perplexity"})

\* _claude_analysis: every exception of the client is caught and returned as
\* an error dict
claude_analysis(outcome) ==
    IF ~claude
    THEN Answer("not_configured", TRUE, "unknown", {})
    ELSE CASE outcome = "ok" -> Answer("answer", FALSE, "claude", {"claude"})
           [] outcome = "status" -> Answer("upstream_error", TRUE, "unknown", {"claude"})
           [] outcome = "refused" -> Answer("connection_error", TRUE, "unknown", {"claude"})
           [] OTHER -> Answer("upstream_timeout", TRUE, "unknown", {"claude"})

\* the queries sent: one with an analysis keyword, one with a live keyword
ServiceQueries == {<<"r", "e", "v", "i", "e", "w", " ", "A", "A", "P", "L">>, <<"A", "A", "P", "L", " ", "t", "o", "d", "a", "y">>}

\* _needs_realtime_data of each of these queries
Routing == [q \in ServiceQueries |-> needs_realtime_data(q)]

\* the entry of the cache under key, if any
CachedUnder(key) == {e \in ai_cache : e.key = key}

\* process_query: `if self.redis_client and response:` then SETEX; a response
\* dict is never empty
Stores(resp) == redis_up

\* process_query(query, user_context) run to its end: the response it
\* returns, whether it came from the cache, and the cache afterwards
process_query(q, context, outcome) ==
    LET key == generate_cache_key(q, context)
        hit == redis_up /\ CachedUnder(key) # {}
        resp == IF Routing[q]
                THEN perplexity_search(outcome)
                ELSE claude_analysis(outcome)
    IN  IF hit
        THEN [resp |-> (CHOOSE e \in CachedUnder(key) : TRUE).value, cached |-> TRUE,
              cache |-> ai_cache]
        ELSE [resp |-> resp, cached |-> FALSE,
              cache |-> IF Stores(resp)
                        THEN (ai_cache \ CachedUnder(key)) \cup {[key |-> key, value |-> resp]}
                        ELSE ai_cache]

(***************************************************************************)
(* chat(), from the provider override to the response (api/ai_chat.py)     *)
(***************************************************************************)
Given(text) == [given |-> TRUE, text |-> text]

\* request.provider: absent, empty, or a string
ProviderValues ==
    { NoProvider, Given(<<>>), Given(<<"C", "l", "a", "u", "d", "e">>), Given(<<"P", "E", "R", "P", "L", "E", "X", "I", "T", "Y">>),
      Given(<<"g", "p", "t">>) }

\* the context chat() builds: no watchlist, no current view
PlainContext == [watchlist |-> <<>>, current_view |-> <<>>]

\* the override compared as sent, without lower-casing
OverrideCaseSensitive(provider) ==
    IF provider.given /\ provider.text # <<>> THEN Given(provider.text) ELSE NoProvider

\* `request.provider.lower() if request.provider else None`
provider_override(provider) ==
    IF provider.given /\ provider.text # <<>> THEN Given(Lower(provider.text)) ELSE NoProvider

\* `if response.get("error"): raise HTTPException(status_code=500, ...)`
StatusOf(resp) == IF resp.error THEN 500 ELSE 200

\* chat(request) from line 92 on, for a request that passed the rate limit
\* and the query validation; outcome is what the backend does if it is called
ChatAnswer(q, provider, stream, outcome) ==
    LET override == provider_override(provider)
        valid == ~override.given \/ override.text \in {<<"c", "l", "a", "u", "d", "e">>, <<"p", "e", "r", "p", "l", "e", "x", "i", "t", "y">>}
        route_to_perplexity ==
            IF override.given THEN override.text = <<"p", "e", "r", "p", "l", "e", "x", "i", "t", "y">> ELSE Routing[q]
        backend == IF route_to_perplexity THEN "perplexity" ELSE "claude"
        configured == IF route_to_perplexity THEN perplexity_api_key ELSE claude
        Reply(path, routed, outbound, cached, kind, error, status) ==
            [query |-> q, provider |-> provider, stream |-> stream, outcome |-> outcome,
             path |-> path, routed |-> routed, outbound |-> outbound, cached |-> cached,
             kind |-> kind, error |-> error, status |-> status]
        direct == IF route_to_perplexity THEN perplexity_search(outcome) ELSE claude_analysis(outcome)
        pq == process_query(q, PlainContext, outcome)
    IN  /\ IF ~valid
           THEN \* HTTPException(400, "Invalid provider")
                /\ response' = Reply("invalid", "none", {}, FALSE, "invalid_provider", TRUE, 400)
                /\ ai_cache' = ai_cache
           ELSE IF stream /\ ~route_to_perplexity
           THEN \* StreamingResponse over stream_claude_response: errors are
                \* events of the stream, and nothing bounds its duration
                /\ response' =
                       IF ~claude
                       THEN Reply("stream", "claude", {}, FALSE, "not_configured", TRUE, 200)
                       ELSE IF outcome = "ok"
                       THEN Reply("stream", "claude", {"claude"}, FALSE, "answer", FALSE, 200)
                       ELSE Reply("stream", "claude", {"claude"}, FALSE, "stream_error", TRUE, 200)
                /\ ai_cache' = ai_cache
           ELSE IF override.given
           THEN \* forced provider: the backend function is awaited directly
                /\ response' = Reply("forced", backend, direct.outbound, FALSE,
                                     direct.kind, direct.error, StatusOf(direct))
                /\ ai_cache' = ai_cache
           ELSE IF outcome = "silent" /\ ~pq.cached /\ configured
           THEN \* asyncio.wait_for cancels process_query: HTTPException(504)
                /\ response' = Reply("classified", backend, {backend}, FALSE, "timeout", TRUE, 504)
                /\ ai_cache' = ai_cache
           ELSE /\ response' = Reply("classified", backend,
                                     IF pq.cached THEN {} ELSE pq.resp.outbound, pq.cached,
                                     pq.resp.kind, pq.resp.error, StatusOf(pq.resp))
                /\ ai_cache' = pq.cache
        /\ health' = NoHealth
        /\ UNCHANGED <<perplexity_api_key, claude, redis_up>>
        /\ UNCHANGED otherThanService

\* health_check: `"healthy" if any(health.values()) else "unhealthy"`
Healthy(services) == services.perplexity \/ services.claude \/ services.redis

\* GET /health: check_health and the status made of it
HealthCheck ==
    /\ LET services == [perplexity |-> perplexity_api_key, claude |-> claude, redis |-> redis_up]
       IN  health' = [status |-> IF Healthy(services) THEN "healthy" ELSE "unhealthy",
                      perplexity |-> services.perplexity, claude |-> services.claude,
                      redis |-> services.redis]
    /\ response' = NoAnswer
    /\ UNCHANGED <<perplexity_api_key, claude, redis_up, ai_cache>>
    /\ UNCHANGED otherThanService

\* a cache entry reaches the end of its cache_ttl
AiExpire(e) ==
    /\ e \in ai_cache
    /\ ai_cache' = ai_cache \ {e}
    /\ UNCHANGED <<perplexity_api_key, claude, redis_up, response, health>>
    /\ UNCHANGED otherThanService

\* the service's Redis server stops answering, or answers again
RedisFlips ==
    /\ redis_up' = ~redis_up
    /\ UNCHANGED <<perplexity_api_key, claude, ai_cache, response, health>>
    /\ UNCHANGED otherThanService

ServiceInit ==
    /\ perplexity_api_key \in BOOLEAN
    /\ claude \in BOOLEAN
    /\ redis_up \in BOOLEAN
    /\ ai_cache = {}
    /\ response = NoAnswer
    /\ health = NoHealth
    /\ CoalInit
    /\ ChatIdle /\ limit = 1
    /\ CacheIdle
    /\ RouteIdle
    /\ KeyIdle
    /\ ExtractIdle
    /\ LaterIdle

ServiceNext ==
    \/ \E q \in ServiceQueries, provider \in ProviderValues, stream \in BOOLEAN,
          outcome \in Outcomes : ChatAnswer(q, provider, stream, outcome)
    \/ HealthCheck
    \/ \E e \in ai_cache : AiExpire(e)
    \/ RedisFlips

SpecService == ServiceInit /\ [][ServiceNext]_vars

(***************************************************************************)
(* AIChatService._extract_actions_from_content                             *)
(***************************************************************************)
\* the characters the regular expression class \w matches
WordChars ==
    {UpperCase[i] : i \in DOMAIN UpperCase} \cup {LowerCase[i] : i \in DOMAIN LowerCase}
        \cup {"0", "1", "2", "3", "4", "5", "6", "7", "8", "9", "_"}

\* the maximal runs of word characters of text, in order; cur is the run
\* being read
RECURSIVE WordRuns(_, _)
WordRuns(text, cur) ==
    IF text = <<>>
    THEN IF cur = <<>> THEN <<>> ELSE <<cur>>
    ELSE IF text[1] \in WordChars
    THEN WordRuns(Tail(text), Append(cur, text[1]))
    ELSE (IF cur = <<>> THEN <<>> ELSE <<cur>>) \o WordRuns(Tail(text), <<>>)

MaxSymbolLen == 5

\* re.findall(r'\b[A-Z]{1,5}\b', content): between two word boundaries, so a
\* whole run of word characters, of one to five capitals
FindSymbols(text) ==
    SelectSeq(WordRuns(text, <<>>),
              LAMBDA w : Len(w) <= MaxSymbolLen /\ \A i \in DOMAIN w : IsUpper(w[i]))

\* the words that are not offered for the watchlist
NotSymbols ==
    { <<"A", "I">>, <<"C", "E", "O">>, <<"I", "P", "O">>, <<"E", "T", "F">>,
      <<"N", "Y", "S", "E">>, <<"N", "A", "S", "D", "A", "Q">>, <<"F", "D", "A">>, <<"S", "E", "C">> }

MaxActions == 5
MaxTechnicals == 3

\* `symbol in watchlist`
InList(symbol, list) == \E i \in DOMAIN list : list[i] = symbol

\* the add_to_watchlist actions, one per symbol found, in order
RECURSIVE AddActions(_, _)
AddActions(symbols, list) ==
    IF symbols = <<>> THEN <<>>
    ELSE (IF Len(symbols[1]) >= 2 /\ ~InList(symbols[1], list) /\ symbols[1] \notin NotSymbols
          THEN <<[type |-> "add_to_watchlist", symbol |-> symbols[1]]>>
          ELSE <<>>)
         \o AddActions(Tail(symbols), list)

\* the view_technical actions, for the first three symbols found
ViewActions(text, symbols) ==
    LET content_lower == Lower(text)
    IN  IF \/ Contains(content_lower, <<"t", "e", "c", "h", "n", "i", "c", "a", "l">>)
           \/ Contains(content_lower, <<"r", "s", "i">>)
           \/ Contains(content_lower, <<"m", "a", "c", "d">>)
        THEN [i \in 1..(IF Len(symbols) < MaxTechnicals THEN Len(symbols) ELSE MaxTechnicals) |->
                 [type |-> "view_technical", symbol |-> symbols[i]]]
        ELSE <<>>

\* the list of actions returned whole
ExtractUncapped(text, list) ==
    AddActions(FindSymbols(text), list) \o ViewActions(text, FindSymbols(text))

\* _extract_actions_from_content(content, context): `return actions[:5]`
extract_actions_from_content(text, list) ==
    LET symbols == FindSymbols(text)
        all == AddActions(symbols, list) \o ViewActions(text, symbols)
    IN  SubSeq(all, 1, IF Len(all) < MaxActions THEN Len(all) ELSE MaxActions)

MaxContentWords == 3

\* pieces of response text
ContentWords ==
    { <<"N", "V", "D", "A">>, <<"A", "M", "D">>, <<"M", "A", "C", "D">>, <<"A", "I">>, <<"A">>,
      <<"N", "A", "S", "D", "A", "Q">>, <<"t", "e", "c", "h", "n", "i", "c", "a", "l">>, <<"b", "u", "y">> }

\* the response text of the claim's example
ExampleContent ==
    <<"C", "o", "n", "s", "i", "d", "e", "r", " ", "N", "V", "D", "A", " ",
    "a", "n", "d", " ", "A", "M", "D", ",", " ", "b", "o", "t", "h", " ",
    "n", "e", "a", "r", " ", "t", "e", "c", "h", "n", "i", "c", "a", "l",
    " ", "b", "r", "e", "a", "k", "o", "u", "t", "s", " ", "w", "i", "t",
    "h", " ", "R", "S", "I", " ", "n", "e", "a", "r", " ", "7", "0">>

Contents ==
    {ExampleContent} \cup {JoinWords(ws) : ws \in SeqsUpTo(ContentWords, MaxContentWords)}

\* _extract_actions_from_content is called on the response text
ExtractActions ==
    /\ ~extracted
    /\ extracted' = TRUE
    /\ actions' = extract_actions_from_content(content, watchlist)
    /\ UNCHANGED <<content, watchlist>>
    /\ UNCHANGED otherThanExtract

ExtractInit ==
    /\ content \in Contents
    /\ watchlist \in {<<>>, <<<<"N", "V", "D", "A">>>>}
    /\ extracted = FALSE
    /\ actions = <<>>
    /\ CoalInit
    /\ ChatIdle /\ limit = 1
    /\ CacheIdle
    /\ RouteIdle
    /\ ServiceIdle
    /\ KeyIdle
    /\ LaterIdle

SpecExtract == ExtractInit /\ [][ExtractActions]_vars

(***************************************************************************)
(* TechnicalAnalysisService._generate_trading_signal                       *)
(***************************************************************************)
\* the vote of each indicator, a pair <<signal, strength>>
RsiVote(rsi) ==
    IF rsi <= 30 THEN <<"buy", "strong">>
    ELSE IF rsi <= 40 THEN <<"buy", "moderate">>
    ELSE IF rsi >= 70 THEN <<"sell", "strong">>
    ELSE IF rsi >= 60 THEN <<"sell", "moderate">>
    ELSE <<"hold", "weak">>

MacdVote(ind) ==
    IF ind.histogram > 0 /\ ind.macd > ind.signal THEN <<"buy", "moderate">>
    ELSE IF ind.histogram < 0 /\ ind.macd < ind.signal THEN <<"sell", "moderate">>
    ELSE <<"hold", "weak">>

MovingAverageVote(ind) ==
    IF ind.current_price > ind.sma_20 /\ ind.sma_20 > ind.sma_50 THEN <<"buy", "moderate">>
    ELSE IF ind.current_price < ind.sma_20 /\ ind.sma_20 < ind.sma_50
    THEN <<"sell", "moderate">>
    ELSE <<"hold", "weak">>

BollingerVote(ind) ==
    IF ind.current_price < ind.lower THEN <<"buy", "strong">>
    ELSE IF ind.current_price > ind.upper THEN <<"sell", "strong">>
    ELSE <<"hold", "weak">>

\* the list `signals` of the code
Votes(ind) == <<RsiVote(ind.rsi), MacdVote(ind), MovingAverageVote(ind), BollingerVote(ind)>>

\* len([s for s in signals if s[i] == value])
CountVotes(votes, i, value) == Cardinality({j \in DOMAIN votes : votes[j][i] = value})

\* the overall signal with ties won by the first signal tested
AggregateTiesToBuy(votes) ==
    LET buy_count == CountVotes(votes, 1, "buy")
        sell_count == CountVotes(votes, 1, "sell")
        hold_count == CountVotes(votes, 1, "hold")
        strong_signals == CountVotes(votes, 2, "strong")
        moderate_signals == CountVotes(votes, 2, "moderate")
    IN  [signal |-> IF buy_count >= sell_count /\ buy_count >= hold_count THEN "buy"
                    ELSE IF sell_count >= buy_count /\ sell_count >= hold_count THEN "sell"
                    ELSE "hold",
         strength |-> IF strong_signals >= 2 THEN "strong"
                      ELSE IF strong_signals >= 1 \/ moderate_signals >= 2 THEN "moderate"
                      ELSE "weak"]

\* lines 210-237: the overall signal and its strength
Aggregate(votes) ==
    LET buy_count == CountVotes(votes, 1, "buy")
        sell_count == CountVotes(votes, 1, "sell")
        hold_count == CountVotes(votes, 1, "hold")
        strong_signals == CountVotes(votes, 2, "strong")
        moderate_signals == CountVotes(votes, 2, "moderate")
    IN  [signal |-> IF buy_count > sell_count /\ buy_count > hold_count THEN "buy"
                    ELSE IF sell_count > buy_count /\ sell_count > hold_count THEN "sell"
                    ELSE "hold",
         strength |-> IF strong_signals >= 2 THEN "strong"
                      ELSE IF strong_signals >= 1 \/ moderate_signals >= 2 THEN "moderate"
                      ELSE "weak"]

\* _generate_trading_signal(indicators)
generate_trading_signal(ind) == Aggregate(Votes(ind))

\* indicator values on both sides of every threshold of the code
RsiValues == {30, 31, 40, 41, 59, 60, 69, 70}
MacdValues ==
    {[histogram |-> h, macd |-> m, signal |-> g] : h \in {0 - 1, 0, 1}, m \in {0, 1}, g \in {0, 1}}
Prices == 1..3
Averages == 1..3
\* bands above, around and below every price
BollingerValues == {[lower |-> 5, upper |-> 6], [lower |-> 0, upper |-> 5], [lower |-> 0, upper |-> 0]}
IndicatorValues ==
    {[rsi |-> r, histogram |-> md.histogram, macd |-> md.macd, signal |-> md.signal,
      current_price |-> p, sma_20 |-> a, sma_50 |-> b, lower |-> bb.lower, upper |-> bb.upper] :
         r \in RsiValues, md \in MacdValues, p \in Prices, a \in Averages, b \in Averages,
         bb \in BollingerValues}

\* _generate_trading_signal is called on the indicators
GenerateSignal ==
    /\ trading_signal = NoSignal
    /\ signals' = Votes(indicators)
    /\ trading_signal' = generate_trading_signal(indicators)
    /\ UNCHANGED <<indicators, techNow, techJumps, techCache, techRet>>
    /\ UNCHANGED otherThanTech

SignalInit ==
    /\ indicators \in IndicatorValues
    /\ signals = <<>>
    /\ trading_signal = NoSignal
    /\ techNow = 0
    /\ techJumps = 0
    /\ techCache = {}
    /\ techRet = "none"
    /\ CoalInit
    /\ ChatIdle /\ limit = 1
    /\ CacheIdle
    /\ AiIdle
    /\ FetchIdle
    /\ StreamIdle
    /\ LimiterIdle

SpecSignal == SignalInit /\ [][GenerateSignal]_vars

(***************************************************************************)
(* TechnicalAnalysisService.get_technical_indicators and its cache         *)
(***************************************************************************)
NTechSymbols == 3
MaxTechJumps == 2

cache_duration == 300

\* the symbols asked for
TechSymbols == 1..NTechSymbols

\* what the price history of a call turns out to be: indicators, no data
\* (hist.empty), or an exception of yfinance
Histories ==
    {[kind |-> "data", ind |-> i] :
        i \in {j \in IndicatorValues :
                  /\ j.rsi = 30 /\ j.histogram = 1 /\ j.macd = 1 /\ j.signal = 0
                  /\ j.current_price = 3 /\ j.sma_20 = 2 /\ j.sma_50 = 1 /\ j.lower = 0
                  /\ j.upper = 5}}
        \cup {[kind |-> "empty", ind |-> NoIndicators], [kind |-> "raise", ind |-> NoIndicators]}

\* the entry of self.cache for a symbol, if any
TechEntries(symbol) == {e \in techCache : e.symbol = symbol}

\* lines 36-39: a cached entry younger than cache_duration
TechFresh(symbol) == {e \in TechEntries(symbol) : techNow - e.timestamp < cache_duration}

\* get_technical_indicators(symbol)
GetTechnicalIndicators(symbol, hist) ==
    /\ IF TechFresh(symbol) # {}
       THEN /\ techRet' = "cached"
            /\ UNCHANGED <<indicators, signals, trading_signal, techCache>>
       ELSE IF hist.kind = "data"
       THEN /\ indicators' = hist.ind
            /\ signals' = Votes(hist.ind)
            /\ trading_signal' = generate_trading_signal(hist.ind)
            /\ techCache' = (techCache \ TechEntries(symbol))
                               \cup {[symbol |-> symbol, timestamp |-> techNow,
                                      data |-> generate_trading_signal(hist.ind)]}
            /\ techRet' = "computed"
       ELSE /\ techRet' = "None"
            /\ UNCHANGED <<indicators, signals, trading_signal, techCache>>
    /\ UNCHANGED <<techNow, techJumps>>
    /\ UNCHANGED otherThanTech

\* time passes
TechTick(d) ==
    /\ techJumps < MaxTechJumps
    /\ techJumps' = techJumps + 1
    /\ techNow' = techNow + d
    /\ UNCHANGED <<indicators, signals, trading_signal, techCache, techRet>>
    /\ UNCHANGED otherThanTech

TechInit ==
    /\ TechIdle
    /\ CoalInit
    /\ ChatIdle /\ limit = 1
    /\ CacheIdle
    /\ AiIdle
    /\ FetchIdle
    /\ StreamIdle
    /\ LimiterIdle

TechNext ==
    \/ \E symbol \in TechSymbols, hist \in Histories : GetTechnicalIndicators(symbol, hist)
    \/ \E d \in {1, cache_duration} : TechTick(d)

SpecTech == TechInit /\ [][TechNext]_vars

(***************************************************************************)
(* CacheService.get_or_fetch: the cache in front of the coalescer          *)
(***************************************************************************)
\* the cache key of the calls for coalescer key k ('coalesce:' + key)
GofKey(k) == IF k = 1 THEN <<"stock", "AAPL">> ELSE <<"news", "general">>

\* the Python value a fetch result stands for
GofValue(v) ==
    CASE v = 0 -> PNone
      [] v = 1 -> PList(<<PInt(1)>>)
      [] OTHER -> PDict(<<PStr(1), PInt(0)>>)

\* the arguments cache_type and custom_ttl the calls are made with
GofParams ==
    {[cache_type |-> "default", custom_ttl |-> <<>>],
     [cache_type |-> "news", custom_ttl |-> <<60>>]}

\* lines 156-159: the value is in the cache and is returned
GofHit(k) ==
    /\ GetCall(GofKey(k)).ret # PNone
    /\ gofRet' = [key |-> k, hit |-> TRUE]
    /\ UNCHANGED <<gofParams, gofWrote>>
    /\ UNCHANGED <<coalVars, cacheVars>>
    /\ UNCHANGED otherThanFetch

\* lines 156-177: the value is not in the cache; coalesce is entered
GofMiss(c, k) ==
    /\ GetCall(GofKey(k)).ret = PNone
    /\ Call(c, k, TRUE)

\* cache_result written as if the call had set no TTL arguments
CacheResultDefaultTTL(t) ==
    [present |-> TRUE, value |-> GofValue(tout[t][2]),
     doc |-> JsonRoundTrip(GofValue(tout[t][2])),
     at |-> ctime, ttl |-> ResolveTTL("default", <<>>)]

\* the entry cache_result writes (lines 167-169)
CacheResultEntry(t) ==
    [present |-> TRUE, value |-> GofValue(tout[t][2]),
     doc |-> JsonRoundTrip(GofValue(tout[t][2])),
     at |-> ctime, ttl |-> ResolveTTL(gofParams.cache_type, gofParams.custom_ttl)]

\* cache_result(value), the cache_func of the task
GofCacheResult(t) ==
    /\ tpc[t] = "caching"
    /\ t \notin gofWrote
    /\ gofWrote' = gofWrote \cup {t}
    /\ IF /\ GofValue(tout[t][2]) # PNone
          /\ SetCall(GofKey(tkey[t]), GofValue(tout[t][2]), gofParams.cache_type,
                     gofParams.custom_ttl).ret = PBool(TRUE)
       THEN store' = [store EXCEPT ![GofKey(tkey[t])] = CacheResultEntry(t)]
       ELSE store' = store
    /\ lastOp' = "set"
    /\ UNCHANGED <<ctime, cticks, reachable, foreign>>
    /\ UNCHANGED <<gofParams, gofRet>>
    /\ UNCHANGED coalVars
    /\ UNCHANGED otherThanFetch

\* cache_result has returned
GofCacheDone(t) ==
    /\ t \in gofWrote
    /\ CacheDone(t)

\* what get_or_fetch returns once coalesce has ended: the result, or None
\* when coalesce raised (lines 178-181)
GofReturn(c) ==
    CASE cpc[c] = "returned" -> GofValue(cres[c][2])
      [] OTHER -> PNone

\* the steps the event loop takes on its own.  cache_result runs without
\* suspending, right after fetch_func returns; the steps that may come in
\* between here see the cache as it was before fetch_func returned.
FetchInternal ==
    \/ \E t \in Callers : GofCacheResult(t)
    \/ \E t \in Callers : GofCacheDone(t)
    \/ \E w \in (0 - NCallers)..NCallers : Acquired(w, TRUE)
    \/ \E t \in Callers : TaskStart(t)
    \/ \E t \in Callers, v \in FetchValues : FetchReturn(t, v)
    \/ \E t \in Callers : FetchRaise(t)
    \/ \E c \in Callers : CallerResume(c)

FetchInit ==
    /\ gofParams \in GofParams
    /\ gofWrote = {}
    /\ gofRet = NoHit
    /\ CoalInit
    /\ ctime = 0
    /\ cticks = 0
    /\ reachable \in BOOLEAN
    /\ foreign = 0
    /\ store = [k \in CKeys |-> NoEntry]
    /\ lastOp = "none"
    /\ ChatIdle /\ limit = 1
    /\ AiIdle
    /\ TechIdle
    /\ StreamIdle
    /\ LimiterIdle

FetchNext ==
    \/ FetchInternal
    \/ \E k \in Keys : GofHit(k)
    \/ \E c \in Callers, k \in Keys : GofMiss(c, k)
    \/ \E c \in Callers : Cancel(c)
    \/ Tick

SpecFetch == FetchInit /\ [][FetchNext]_vars

(***************************************************************************)
(* chat() with stream=true, generate() and stream_claude_response          *)
(***************************************************************************)
MaxChunks == 4

\* line 94: the override is absent, 'claude' or 'perplexity'
ValidOverride(provider) ==
    \/ ~provider_override(provider).given
    \/ provider_override(provider).text \in {<<"c", "l", "a", "u", "d", "e">>, <<"p", "e", "r", "p", "l", "e", "x", "i", "t", "y">>}

\* lines 98-100
route_to_perplexity(q, provider) ==
    IF provider_override(provider).given
    THEN provider_override(provider).text = <<"p", "e", "r", "p", "l", "e", "x", "i", "t", "y">>
    ELSE Routing[q]

\* the chunk types of a Claude message stream
ChunkTypes == {"message_start", "content_block_delta", "message_stop"}

\* generate() after an error event says nothing more
TerminalUnlessError(evs) ==
    IF \E i \in DOMAIN evs : evs[i] = "error" THEN evs ELSE Append(evs, "[DONE]")

\* generate(), line 108: after the last chunk of stream_claude_response
Terminal(evs) == Append(evs, "[DONE]")

\* chat(request) with stream=true, up to the response object
StreamChat(q, provider) ==
    /\ spc = "none"
    /\ sreq' = [query |-> q, provider |-> provider]
    /\ spc' = IF ~ValidOverride(provider) THEN "rejected"
              ELSE IF route_to_perplexity(q, provider) THEN "single"
              ELSE "open"
    /\ UNCHANGED <<events, sfailed>>
    /\ UNCHANGED otherThanStream

\* the response body is iterated: stream_claude_response up to its first
\* event; raises tells whether messages.create raises
StreamStart(raises) ==
    /\ spc = "open"
    /\ IF ~claude
       THEN \* lines 266-271
            /\ events' = Append(events, "error")
            /\ spc' = "finishing"
            /\ UNCHANGED <<sreq, sfailed>>
       ELSE IF raises
       THEN \* lines 292-296
            /\ events' = Append(events, "error")
            /\ spc' = "finishing"
            /\ sfailed' = TRUE
            /\ sreq' = sreq
       ELSE /\ spc' = "streaming"
            /\ UNCHANGED <<sreq, events, sfailed>>
    /\ UNCHANGED otherThanStream

\* one chunk of the Claude stream (lines 285-290)
StreamChunk(type) ==
    /\ spc = "streaming"
    /\ Len(events) < MaxChunks
    /\ events' = IF type = "content_block_delta" THEN Append(events, "delta") ELSE events
    /\ UNCHANGED <<sreq, spc, sfailed>>
    /\ UNCHANGED otherThanStream

\* the Claude stream raises (lines 292-296)
StreamRaises ==
    /\ spc = "streaming"
    /\ events' = Append(events, "error")
    /\ spc' = "finishing"
    /\ sfailed' = TRUE
    /\ sreq' = sreq
    /\ UNCHANGED otherThanStream

\* the Claude stream is exhausted
StreamExhausted ==
    /\ spc = "streaming"
    /\ spc' = "finishing"
    /\ UNCHANGED <<sreq, events, sfailed>>
    /\ UNCHANGED otherThanStream

\* stream_claude_response has returned: generate() ends
GenerateEnds ==
    /\ spc = "finishing"
    /\ events' = Terminal(events)
    /\ spc' = "closed"
    /\ UNCHANGED <<sreq, sfailed>>
    /\ UNCHANGED otherThanStream

StreamInit ==
    /\ StreamIdle
    /\ perplexity_api_key = TRUE
    /\ claude \in BOOLEAN
    /\ redis_up = TRUE
    /\ ai_cache = {}
    /\ response = NoAnswer
    /\ health = NoHealth
    /\ CoalInit
    /\ ChatIdle /\ limit = 1
    /\ CacheIdle
    /\ RouteIdle
    /\ KeyIdle
    /\ ExtractIdle
    /\ TechIdle
    /\ FetchIdle
    /\ LimiterIdle

StreamNext ==
    \/ \E q \in ServiceQueries, provider \in ProviderValues : StreamChat(q, provider)
    \/ \E raises \in BOOLEAN : StreamStart(raises)
    \/ \E type \in ChunkTypes : StreamChunk(type)
    \/ StreamRaises
    \/ StreamExhausted
    \/ GenerateEnds

SpecStream == StreamInit /\ [][StreamNext]_vars

(***************************************************************************)
(* PolygonService._rate_limit and _make_request (AlphaVantageService has   *)
(* the same _rate_limit)                                                   *)
(***************************************************************************)
MaxRlJumps == 3

\* the limit and the period of _rate_limit
RateLimit == 5
RatePeriod == 60

\* timedelta.seconds: the seconds within the day
Seconds(d) == d % 86400

\* the counter and the period start after lines 38-44
CountAfterReset ==
    IF Seconds(rlNow - last_request_time) >= RatePeriod THEN 1 ELSE self_request_count + 1
StartAfterReset ==
    IF Seconds(rlNow - last_request_time) >= RatePeriod THEN rlNow ELSE last_request_time

\* line 48
wait_time == RatePeriod - Seconds(rlNow - StartAfterReset)

\* _make_request is called with an API key: _rate_limit up to its sleep, or
\* through to the outbound request
MakeRequest(c) ==
    /\ rlpc[c] = "idle"
    /\ \A d \in RlCallers : d < c => rlpc[d] # "idle"    \* calls are numbered in order
    /\ self_request_count' = CountAfterReset
    /\ last_request_time' = StartAfterReset
    /\ IF CountAfterReset >= RateLimit /\ wait_time > 0
       THEN /\ rlpc' = [rlpc EXCEPT ![c] = "sleeping"]
            /\ rlWake' = [rlWake EXCEPT ![c] = rlNow + wait_time]
            /\ rlAt' = rlAt
       ELSE /\ rlpc' = [rlpc EXCEPT ![c] = "released"]
            /\ rlAt' = [rlAt EXCEPT ![c] = rlNow]
            /\ rlWake' = rlWake
    /\ UNCHANGED <<rlNow, rlJumps>>
    /\ UNCHANGED otherThanLimiter

\* asyncio.sleep(wait_time) returns (lines 52-53), then the outbound request
WakeUp(c) ==
    /\ rlpc[c] = "sleeping"
    /\ rlNow >= rlWake[c]
    /\ self_request_count' = 1
    /\ last_request_time' = rlNow
    /\ rlpc' = [rlpc EXCEPT ![c] = "released"]
    /\ rlAt' = [rlAt EXCEPT ![c] = rlNow]
    /\ UNCHANGED <<rlNow, rlJumps, rlWake>>
    /\ UNCHANGED otherThanLimiter

\* time passes, not beyond the end of a sleep
RlTick(d) ==
    /\ rlJumps < MaxRlJumps
    /\ \A c \in RlCallers : rlpc[c] = "sleeping" => rlNow + d <= rlWake[c]
    /\ rlNow' = rlNow + d
    /\ rlJumps' = rlJumps + 1
    /\ UNCHANGED <<self_request_count, last_request_time, rlpc, rlWake, rlAt>>
    /\ UNCHANGED otherThanLimiter

LimiterInit ==
    /\ LimiterIdle
    /\ CoalInit
    /\ ChatIdle /\ limit = 1
    /\ CacheIdle
    /\ AiIdle
    /\ TechIdle
    /\ FetchIdle
    /\ StreamIdle

LimiterNext ==
    \/ \E c \in RlCallers : MakeRequest(c)
    \/ \E c \in RlCallers : WakeUp(c)
    \/ \E d \in {1, RatePeriod - 1} : RlTick(d)

SpecLimiter == LimiterInit /\ [][LimiterNext]_vars

(***************************************************************************)
(* The specifications                                                      *)
(***************************************************************************)
CoalIdle == CoalInit

ChatInit ==
    /\ limit \in 0..MaxLimit
    /\ ChatIdle
    /\ CoalIdle
    /\ CacheIdle
    /\ AiIdle
    /\ LaterIdle

ChatNext ==
    \/ \E r \in Requests, u \in Users, blankQuery \in BOOLEAN : ChatStart(r, u, blankQuery)
    \/ \E r \in Requests, validProvider \in BOOLEAN : WatchlistLookup(r, validProvider)
    \/ \E r \in Requests, answer \in {0, 200, 500, 504} : AiAnswer(r, answer)
    \/ ChatTick

SpecChat == ChatInit /\ [][ChatNext]_vars

Init == CoalInit /\ ChatIdle /\ limit = 1 /\ CacheIdle /\ AiIdle /\ LaterIdle

Next == Internal \/ External

Spec == Init /\ [][Next]_vars

\* the event loop runs every task that is ready
FairSpec == Spec /\ WF_vars(Internal)

(***************************************************************************)
(* Request coalescer: properties                                           *)
(***************************************************************************)
Ended(c) == cpc[c] \in {"returned", "raised", "cancelled"}

\* C1: every call that arrives for a key while a fetch for that key is in
\* flight receives the outcome of that one fetch: once the event loop has
\* nothing left to run, each such call that was not itself cancelled has
\* returned or raised what the fetch task produced, and fetch_func was
\* invoked once for the key.
C1_CoalescedCallsShareOneFetch ==
    ~ENABLED Internal =>
        \A c \in Callers :
            (arrivedDuring[c] # {} /\ cpc[c] # "cancelled" /\ ~abandoned[c]) =>
                /\ cpc[c] \in {"returned", "raised"}
                /\ \E t \in arrivedDuring[c] : cfut[c] = t /\ cres[c] = tout[t]
                /\ fetchCount[ckey[c]] = 1

\* C2: a coalesce call whose fetch_func has returned or raised eventually
\* returns that value or raises that error (or is cancelled by its caller).
C2_CallEventuallyReturns ==
    \A c \in Callers :
        (cpc[c] = "awaitFut" /\ cfut[c] = c /\ tout[c][1] \in {"value", "error"})
            ~> Ended(c)

\* C3: for each key at most one execution of fetch_func is running, also
\* when calls arrive after the coalescing window of the running fetch.
C3_AtMostOneFetchPerKey ==
    \A k \in Keys : Cardinality(Running(k)) <= 1

\* C3 witness: a call for a key has arrived while the fetch registered for
\* that key is still running and its ticket is older than the window.
C3_Witness ==
    \E c \in Callers, t \in Callers :
        /\ c # t
        /\ cpc[c] = "wantLock"
        /\ ckey[c] = tkey[t]
        /\ tpc[t] = "fetching"
        /\ pending_requests[tkey[t]] = t
        /\ Expired(tkey[t])

\* C4: when fetch_func raised, then, once the event loop has nothing left
\* to run, every call attached to the task has raised that failure, cache_func was not
\* invoked and the key is no longer registered to the failed task.
C4_FailureFreesKey ==
    ~ENABLED Internal =>
        \A t \in Callers :
            (tpc[t] # "none" /\ tout[t] = Failure) =>
                /\ \A c \in Callers :
                       (cfut[c] = t /\ ~abandoned[c]) =>
                           (cpc[c] = "raised" /\ cres[c] = Failure)
                /\ cacheCount[t] = 0
                /\ pending_requests[tkey[t]] # t

\* C5: when a call is abandoned while its fetch is in flight, the key is
\* eventually no longer registered to that fetch and the lock is held
\* neither by the call nor by its task.
C5_AbandonedCallFreesKeyAndLock ==
    \A c \in Callers :
        (abandoned[c] /\ cfut[c] = c)
            ~> (pending_requests[ckey[c]] # c /\ lockOwner \notin {c, -c})

(***************************************************************************)
(* Chat rate limiter: properties                                           *)
(***************************************************************************)
\* number of requests of user u that passed the check less than an hour ago
RecentAccepted(u) ==
    Cardinality({i \in DOMAIN acceptedLog[u] : clock - acceptedLog[u][i] < Hour})

\* request r enters the endpoint in this step
Starts(r) == rpc[r] = "idle" /\ rpc'[r] # "idle"

\* C6: a user who has N accepted requests in the last hour gets no further
\* request accepted, and a request that is not accepted ends at once with
\* status 429 without having called the watchlist, the AI cache or a backend.
C6_RejectedBeforeAnyBackend ==
    [][\A r \in Requests :
          Starts(r) =>
              /\ \A u \in Users :
                     RecentAccepted(u) >= limit => acceptedLog'[u] = acceptedLog[u]
              /\ acceptedLog' = acceptedLog =>
                     /\ rpc'[r] = "done"
                     /\ lastDone' = [status |-> 429, touched |-> {}]
                     /\ touched' = touched]_vars

\* C6 witness: with a limit of at least one, a request has been rejected after
\* N requests of its user were accepted within the hour.
C6_Witness ==
    /\ limit >= 1
    /\ lastDone.status = 429
    /\ \E u \in Users : RecentAccepted(u) = limit /\ Len(acceptedLog[u]) = limit

\* C7: in every interleaving of chat requests, the accepted requests of a
\* user whose timestamps lie in a window [t, t + 1 hour) never exceed the
\* limit, and a request of a user with fewer than N accepted requests in
\* the last hour is accepted.
C7_SlidingWindow ==
    /\ [](\A u \in Users : \A t \in 0..MaxClock :
             Cardinality({i \in DOMAIN acceptedLog[u] :
                             t <= acceptedLog[u][i] /\ acceptedLog[u][i] < t + Hour})
                 <= limit)
    /\ [][\A r \in Requests :
             Starts(r) =>
                 \E u \in Users :
                     \/ /\ RecentAccepted(u) < limit
                        /\ acceptedLog' = [acceptedLog EXCEPT ![u] = Append(@, clock)]
                     \/ /\ RecentAccepted(u) >= limit
                        /\ acceptedLog' = acceptedLog]_vars

\* C7 witness: a user at the limit was rejected and, an hour after an earlier
\* accepted request, has been accepted again while other requests are in flight.
C7_Witness ==
    /\ limit >= 1
    /\ \E u \in Users :
          /\ Len(acceptedLog[u]) > limit
          /\ Len(user_request_counts[u]) = limit
    /\ \E r \in Requests : rpc[r] \in {"watchlist", "ai"}

(***************************************************************************)
(* CacheService: properties                                                *)
(***************************************************************************)

\* C8: while the store is unreachable no call on the cache service raises:
\* get returns None, set and delete return False, exists returns False and
\* clear_pattern returns 0, whatever the arguments.
C8_UnreachableStoreDegrades ==
    ~reachable =>
        /\ \A k \in CKeys :
               /\ GetCall(k) = Returns(PNone)
               /\ DeleteCall(k) = Returns(PBool(FALSE))
               /\ ExistsCall(k) = Returns(PBool(FALSE))
               /\ \A value \in Documents, cache_type \in CacheTypes, custom_ttl \in Overrides :
                      SetCall(k, value, cache_type, custom_ttl) = Returns(PBool(FALSE))
        /\ \A p \in Patterns, dbsizeFails \in BOOLEAN :
               ClearPatternCall(p, dbsizeFails) = Returns(PInt(0))

\* exists was called on a key set earlier, with the store unreachable
C8_Witness ==
    /\ ~reachable
    /\ lastOp = "exists"
    /\ \E k \in CKeys : Live(k)

\* the TTL the claim gives a set: the override when one is given, else the
\* category's default, else 300
ClaimedTTL(cache_type, custom_ttl) ==
    IF custom_ttl # <<>> THEN custom_ttl[1] ELSE CategoryTTL(cache_type)

\* C9: for every category and every TTL override, a set that stores the entry
\* stores it with the override when one is given, else with the category's
\* default, else with 300 s; an override is never replaced by the category
\* default.
C9_OverrideThenCategoryThenDefault ==
    [][\A k \in CKeys, value \in Documents, cache_type \in CacheTypes, custom_ttl \in Overrides :
           (/\ CacheSet(k, value, cache_type, custom_ttl)
            /\ SetCall(k, value, cache_type, custom_ttl) = Returns(PBool(TRUE)))
               => store'[k].ttl = ClaimedTTL(cache_type, custom_ttl)]_vars

\* what the claim has get return for a key set successfully and not set,
\* deleted or cleared since: the value set until its TTL has elapsed, None after
ClaimedGet(k) ==
    IF ctime - store[k].at < store[k].ttl THEN store[k].value ELSE PNone

\* C10 as stated: for every key and serialisable value, after a successful
\* set with no later set or delete of the key, get returns exactly the value
\* set until the TTL has elapsed, and None once it has (the store reachable;
\* C8 is the other case).
C10_GetReturnsTheValueSet ==
    \A k \in CKeys :
        (reachable /\ store[k].present) => GetCall(k).ret = ClaimedGet(k)

\* C10 as amended: the same, for the values JSON represents as they are
\* (None, booleans, integers, strings, lists of such, dicts of such with
\* string keys); a tuple comes back as a list and a key that is not a string
\* as a string.
C10_GetReturnsTheJsonValueSet ==
    \A k \in CKeys :
        (reachable /\ store[k].present /\ JsonNative(store[k].value)) =>
            GetCall(k) = Returns(ClaimedGet(k))

\* get was called with one entry within its TTL and another past it
C10_Witness ==
    /\ reachable
    /\ lastOp = "get"
    /\ \E k \in CKeys :
           /\ store[k].present /\ JsonNative(store[k].value) /\ store[k].value # PNone
           /\ ctime - store[k].at < store[k].ttl
    /\ \E k \in CKeys :
           /\ store[k].present
           /\ ctime - store[k].at >= store[k].ttl

\* C11: with the store reachable, clear_pattern removes every key matching the
\* pattern, leaves every other key as it was and returns the number of keys
\* removed, without raising, whether it enumerates with KEYS (at most 1000
\* keys) or with SCAN (more keys, or DBSIZE failing).
C11_ClearPatternRemovesMatches ==
    [][\A p \in Patterns, dbsizeFails \in BOOLEAN :
           (reachable /\ CacheClearPattern(p, dbsizeFails)) =>
               /\ \A k \in CKeys :
                      IF Matches(p, k)
                      THEN ~(store'[k].present /\ ctime' - store'[k].at < store'[k].ttl)
                      ELSE store'[k] = store[k]
               /\ ClearPatternCall(p, dbsizeFails) =
                      Returns(PInt(Cardinality({k \in CKeys : Live(k) /\ Matches(p, k)})))]_vars

\* clear_pattern ran with SCAN over a large database, and a key that does not
\* match is still there
C11_Witness ==
    /\ reachable
    /\ lastOp = "clear_pattern"
    /\ foreign > KeysThreshold
    /\ ~store[<<"stock", "AAPL">>].present
    /\ Live(<<"news", "general">>)

(***************************************************************************)
(* AIChatService: properties                                               *)
(***************************************************************************)
HasAnalysisKeyword(q) == \E keyword \in analysis_keywords : Contains(Lower(q), keyword)
HasLiveKeyword(q) == \E keyword \in realtime_keywords : Contains(Lower(q), keyword)

\* C12: the classification is a function of the lower-cased query text:
\* 'analysis' whenever an analysis keyword occurs as a substring, even with
\* live keywords present ('Should I buy AAPL calls today?'); 'live' when only
\* live keywords occur ('What happened to TSLA today'); 'live' when neither.
C12_AnalysisKeywordsWin ==
    /\ classified # "none" =>
           classified = (IF HasAnalysisKeyword(query) THEN "analysis" ELSE "live")
    /\ (classified # "none" /\ query = <<"S", "h", "o", "u", "l", "d", " ", "I", " ", "b", "u", "y", " ", "A", "A", "P", "L", " ", "c", "a", "l", "l", "s", " ", "t", "o", "d", "a", "y", "?">>) =>
           classified = "analysis"
    /\ (classified # "none" /\ query = <<"W", "h", "a", "t", " ", "h", "a", "p", "p", "e", "n", "e", "d", " ", "t", "o", " ", "T", "S", "L", "A", " ", "t", "o", "d", "a", "y">>) =>
           classified = "live"

\* a query with a keyword of each set has been classified
C12_Witness ==
    /\ classified = "analysis"
    /\ HasAnalysisKeyword(query)
    /\ HasLiveKeyword(query)

\* what the claim has the override do: select the named backend, whatever the
\* query, or be rejected with no backend invoked
OverrideObeyed ==
    LET named == Lower(response.provider.text)
    IN  IF named \in {<<"c", "l", "a", "u", "d", "e">>, <<"p", "e", "r", "p", "l", "e", "x", "i", "t", "y">>}
        THEN /\ response.routed = (IF named = <<"c", "l", "a", "u", "d", "e">> THEN "claude" ELSE "perplexity")
             /\ response.outbound \subseteq {response.routed}
             /\ response.status # 400
        ELSE /\ response.status = 400
             /\ response.routed = "none"
             /\ response.outbound = {}

\* C13 as stated: a request that supplies a provider is served by the backend
\* it names ('claude' or 'perplexity' in any case) for every query text, and
\* any other value supplied is rejected as invalid with no backend invoked.
C13_OverrideDecidesBackend ==
    (response.path # "none" /\ response.provider.given) => OverrideObeyed

\* C13 as amended: the same for every provider value that is not the empty
\* string; an empty string counts as no override and the query is classified.
C13_NonEmptyOverrideDecidesBackend ==
    /\ (response.path # "none" /\ response.provider.given /\ response.provider.text # <<>>)
           => OverrideObeyed
    /\ (response.path # "none" /\ response.provider.given /\ response.provider.text = <<>>)
           => response.path \in {"classified", "stream"}

\* a query with a live keyword was answered by Claude because the request
\* named it, in capitals
C13_Witness ==
    /\ response.path = "forced"
    /\ response.provider = Given(<<"C", "l", "a", "u", "d", "e">>)
    /\ Routing[response.query]
    /\ response.routed = "claude"
    /\ response.outbound = {"claude"}

\* C14: on every path (classified, forced provider, streaming) a request whose
\* backend was called and did not answer within the timeout ends with the
\* timeout outcome, HTTP 504, not with the provider-error outcome, HTTP 500.
C14_SilentBackendEndsIn504 ==
    (response.outcome = "silent" /\ response.outbound # {}) =>
        (response.status = 504 /\ response.kind = "timeout")

\* C15: after process_query returned an error result (backend not configured,
\* upstream error status, upstream timeout, connection error) the cache holds
\* no entry under the query's key.
C15_ErrorsAreNotCached ==
    (/\ response.path = "classified"
     /\ response.kind \in {"not_configured", "upstream_error", "upstream_timeout",
                           "connection_error"})
        => CachedUnder(generate_cache_key(response.query, PlainContext)) = {}

\* C16: when the selected backend has no API key, the request makes no
\* outbound call and is answered with the 'not configured' response without
\* an error status.
C16_NotConfiguredIsNotAnError ==
    response.kind = "not_configured" =>
        (response.outbound = {} /\ response.status = 200)

\* C17: the health endpoint reports 'healthy' exactly when at least one of the
\* two AI backends is available; a reachable cache store alone does not make
\* it 'healthy'.
C17_HealthyIffABackendIsAvailable ==
    health.status # "none" =>
        (health.status = "healthy" <=> (health.perplexity \/ health.claude))

\* C18: two requests with the same query text, the same watchlist symbols in
\* any order and the same view get the same cache key, whatever their user
\* ids and timestamps, and the key has the form ai_chat:<hash>.
C18_KeyIgnoresOrderUserAndTime ==
    keyA # <<>> =>
        /\ keyA[1] = "ai_chat:" /\ keyB[1] = "ai_chat:"
        /\ (/\ reqA.query = reqB.query
            /\ SymbolSet(reqA.watchlist) = SymbolSet(reqB.watchlist)
            /\ reqA.current_view = reqB.current_view)
               => keyA = keyB

\* keys were generated for two requests alike but for the order of the
\* watchlist, the user and the timestamp
C18_Witness ==
    /\ keyA # <<>>
    /\ keyA = keyB
    /\ reqA.watchlist # reqB.watchlist
    /\ reqA.user_id # reqB.user_id
    /\ reqA.timestamp # reqB.timestamp

\* the actions of one type
OfType(type) == SelectSeq(actions, LAMBDA act : act.type = type)

\* C19: on the text 'Consider NVDA and AMD, both near technical breakouts with
\* RSI near 70' with an empty watchlist the actions are exactly two
\* add-to-watchlist actions, NVDA and AMD, and at most two view-technicals
\* actions, none of them for RSI.
C19_ExampleGivesNvdaAndAmd ==
    (extracted /\ content = ExampleContent /\ watchlist = <<>>) =>
        /\ [i \in DOMAIN OfType("add_to_watchlist") |-> OfType("add_to_watchlist")[i].symbol]
               = <<<<"N", "V", "D", "A">>, <<"A", "M", "D">>>>
        /\ Len(OfType("view_technical")) <= 2
        /\ \A i \in DOMAIN actions : actions[i].symbol # <<"R", "S", "I">>

VotesFor(value) == Cardinality({j \in DOMAIN signals : signals[j][1] = value})
VotesOf(value) == Cardinality({j \in DOMAIN signals : signals[j][2] = value})

\* C21: for every combination of the four votes the overall signal is 'buy'
\* (resp. 'sell') only when the buy (resp. sell) count is strictly greater than
\* each of the other two counts and 'hold' otherwise, ties included; the
\* strength is 'strong' with at least 2 strong votes, 'moderate' with at least
\* 1 strong or at least 2 moderate votes, else 'weak'.
C21_StrictMajorityElseHold ==
    trading_signal # NoSignal =>
        /\ Len(signals) = 4
        /\ trading_signal.signal = "buy" <=>
               (VotesFor("buy") > VotesFor("sell") /\ VotesFor("buy") > VotesFor("hold"))
        /\ trading_signal.signal = "sell" <=>
               (VotesFor("sell") > VotesFor("buy") /\ VotesFor("sell") > VotesFor("hold"))
        /\ trading_signal.signal \in {"buy", "sell", "hold"}
        /\ trading_signal.strength = "strong" <=> VotesOf("strong") >= 2
        /\ trading_signal.strength = "moderate" <=>
               (VotesOf("strong") < 2 /\ (VotesOf("strong") >= 1 \/ VotesOf("moderate") >= 2))
        /\ trading_signal.strength \in {"strong", "moderate", "weak"}

\* two votes to buy against two to sell: a tie, answered 'hold'
C21_Witness ==
    /\ trading_signal.signal = "hold"
    /\ VotesFor("buy") = 2
    /\ VotesFor("sell") = 2
    /\ trading_signal.strength = "strong"

\* C22: the process-local cache of technical indicators is bounded: after any
\* sequence of get_technical_indicators calls for any symbols its entry count
\* stays under a fixed cap, the oldest entry being evicted when the cap would
\* be exceeded; so it never holds an entry for every symbol asked for, however
\* many symbols there are.
C22_TechCacheIsBounded == Cardinality(techCache) < NTechSymbols

(***************************************************************************)
(* Request coalescer: further properties                                   *)
(***************************************************************************)
\* C23: when fetch_func succeeds, on_success (cache_func) is invoked once with
\* the result before the key is removed and before any caller receives the
\* result; the key is removed from the in-flight map after completion on the
\* success and on the failure path, whatever on_success does.  Stated of the
\* states where the event loop has nothing left to run.
C23_OnSuccessThenRemoval ==
    ~ENABLED Internal =>
        \A t \in Callers :
            (tpc[t] # "none" /\ tout[t][1] \in {"value", "error"}) =>
                /\ (tout[t][1] = "value" /\ thasCache[t]) => cacheCount[t] = 1
                /\ tout[t][1] = "error" => cacheCount[t] = 0
                /\ pending_requests[tkey[t]] # t
                /\ \A c \in Callers :
                       (cfut[c] = t /\ cres[c][1] = "value") => cres[c] = tout[t]

C28_LockNotHeldAcrossFetch ==
    \A c \in Callers, d \in Callers :
        (/\ cpc[c] = "awaitFut"
         /\ tpc[cfut[c]] = "fetching"
         /\ cpc[d] = "wantLock"
         /\ ckey[d] # ckey[c]) => lockOwner # c

(***************************************************************************)
(* CacheService.get_or_fetch: properties                                   *)
(***************************************************************************)
\* C25: get_or_fetch never raises; on a hit it returns the cached value
\* without invoking fetch_fn; on a miss it runs fetch_fn through the
\* coalescer, stores a non-empty result under the key with the category or
\* override TTL and returns it; if fetch_fn raises it returns None and writes
\* nothing.  Stated of the states where the event loop has nothing left to
\* run: every call that missed and was not cancelled has returned.
C25_GetOrFetchReturns ==
    ~ENABLED FetchInternal =>
        \A c \in Callers :
            (cpc[c] \notin {"idle", "cancelled"} /\ ~abandoned[c]) =>
                /\ cpc[c] \in {"returned", "raised"}
                /\ cpc[c] = "raised" => (GofReturn(c) = PNone /\ cfut[c] \notin gofWrote)
                /\ (cpc[c] = "returned" /\ Truthy(GofReturn(c)) /\ reachable) =>
                       store[GofKey(ckey[c])].present

(***************************************************************************)
(* Streamed chat: properties                                               *)
(***************************************************************************)
\* C26: for a request with stream=true routed to the analysis backend the
\* event stream is zero or more delta events, an error event when the backend
\* is not configured or fails, then exactly one terminal '[DONE]' event and
\* nothing after it; until then the stream can always go on.  A request with
\* stream=true routed to the live backend gets no event stream.
C26_StreamEndsWithOneDone ==
    /\ \A i \in DOMAIN events :
           /\ events[i] \in {"delta", "error", "[DONE]"}
           /\ events[i] = "[DONE]" => (i = Len(events) /\ spc = "closed")
           /\ events[i] = "error" =>
                  /\ ~claude \/ sfailed
                  /\ i = Len(events) \/ (i = Len(events) - 1 /\ events[Len(events)] = "[DONE]")
    /\ spc = "closed" => (events # <<>> /\ events[Len(events)] = "[DONE]")
    /\ spc \in {"open", "streaming", "finishing"} => ENABLED StreamNext
    /\ (~claude \/ sfailed) /\ spc \in {"finishing", "closed"} =>
           \E i \in DOMAIN events : events[i] = "error"
    /\ spc \in {"single", "rejected"} => events = <<>>
    /\ spc = "single" => route_to_perplexity(sreq.query, sreq.provider)
    /\ spc \in {"open", "streaming", "finishing", "closed"} =>
           ~route_to_perplexity(sreq.query, sreq.provider)

\* a stream that failed after a delta event and was closed by '[DONE]'
C26_Witness ==
    /\ spc = "closed"
    /\ Len(events) >= 3
    /\ events[1] = "delta"
    /\ events[Len(events) - 1] = "error"
    /\ events[Len(events)] = "[DONE]"

(***************************************************************************)
(* Outbound rate limit: properties                                         *)
(***************************************************************************)
\* the requests released in the 60 seconds that start at time t
ReleasedFrom(t) == {c \in RlCallers : rlAt[c] >= t /\ rlAt[c] < t + RatePeriod}

\* C27: _rate_limit releases no more than 5 outbound requests within any
\* 60-second period, for any number of callers of _make_request on one
\* instance, concurrent or not.
C27_AtMostFivePerMinute ==
    \A c \in RlCallers : rlAt[c] # -1 => Cardinality(ReleasedFrom(rlAt[c])) <= 5

(***************************************************************************)
(* Chat rate limiter: further properties                                   *)
(***************************************************************************)
\* how many times timestamp t is recorded in a list
Recorded(list, t) == Cardinality({i \in DOMAIN list : list[i] = t})

\* C30: in every reachable state each user's list of recorded timestamps has
\* at most N (the hourly limit) entries younger than one hour; a rejected
\* check records no timestamp and leaves every other user's list unchanged;
\* an accepted check appends exactly one timestamp, the current time, to the
\* calling user's list only; no other step changes a list.
C30_ListsBoundedAndFramed ==
    /\ [](\A u \in Users :
             Cardinality({i \in DOMAIN user_request_counts[u] :
                             clock - user_request_counts[u][i] < Hour}) <= limit)
    /\ [][IF \E r \in Requests : Starts(r)
          THEN \E u \in Users :
                   /\ \A v \in Users \ {u} : user_request_counts'[v] = user_request_counts[v]
                   /\ \A t \in 0..MaxClock :
                          t # clock => Recorded(user_request_counts'[u], t)
                                          <= Recorded(user_request_counts[u], t)
                   /\ IF lastDone'.status = 429 /\ \E r \in Requests : Starts(r) /\ rpc'[r] = "done"
                         /\ acceptedLog' = acceptedLog
                      THEN Recorded(user_request_counts'[u], clock)
                               <= Recorded(user_request_counts[u], clock)
                      ELSE /\ Recorded(user_request_counts'[u], clock)
                                  = Recorded(user_request_counts[u], clock) + 1
                           /\ user_request_counts'[u][Len(user_request_counts'[u])] = clock
          ELSE user_request_counts' = user_request_counts]_vars

\* a request was rejected for a user at the limit while another user has a
\* timestamp recorded, and an entry older than an hour was dropped before
C30_Witness ==
    /\ limit >= 1
    /\ lastDone.status = 429
    /\ \E u \in Users, v \in Users :
          /\ u # v
          /\ Len(user_request_counts[u]) = limit
          /\ user_request_counts[v] # <<>>
          /\ Len(acceptedLog[u]) >= limit

====
